---- MODULE Spec2Model ----
(***************************************************************************)
(* A model of the Bones patch engine, fullfathom5/bones/_apply_patches.py: *)
(* the unified-diff parser, the hunk matcher (exact / already-applied /    *)
(* fuzzy), the per-file applier with its backup and write, and the public  *)
(* entry point apply_patches.                                              *)
(*                                                                         *)
(* Text is a sequence of characters, a character is a one-character        *)
(* string.  A Python list of str is a sequence of such sequences.  None is *)
(* the empty tuple and a present optional value x is <<x>>.  A float ratio *)
(* 2*M/T of difflib is the pair [num |-> 2*M, den |-> T].                  *)
(***************************************************************************)
EXTENDS Integers, Sequences, FiniteSets, TLC

None == <<>>

Some(x) == <<x>>

Min(a, b) == IF a <= b THEN a ELSE b

Max(a, b) == IF a >= b THEN a ELSE b

(***************************************************************************)
(* str helpers                                                             *)
(***************************************************************************)

\* str.startswith(p)
StartsWith(s, p) == Len(s) >= Len(p) /\ SubSeq(s, 1, Len(p)) = p

\* str.endswith(p)
EndsWith(s, p) == Len(s) >= Len(p) /\ SubSeq(s, Len(s) - Len(p) + 1, Len(s)) = p

\* s[n:]
Drop(s, n) == SubSeq(s, n + 1, Len(s))

\* "".join(parts)
RECURSIVE Join(_)
Join(parts) == IF parts = <<>> THEN <<>> ELSE Head(parts) \o Join(Tail(parts))

\* the characters str.strip() and str.rstrip() remove
Whitespace == {" ", "\t", "\n", "\r"}

\* str.rstrip()
RECURSIVE RStrip(_)
RStrip(s) ==
    IF s # <<>> /\ s[Len(s)] \in Whitespace THEN RStrip(SubSeq(s, 1, Len(s) - 1)) ELSE s

\* str.lstrip()
RECURSIVE LStrip(_)
LStrip(s) == IF s # <<>> /\ Head(s) \in Whitespace THEN LStrip(Tail(s)) ELSE s

\* str.strip()
Strip(s) == LStrip(RStrip(s))

\* str.lower() on the letters the generated answers hold
LowerChar(c) ==
    CASE c = "Y" -> "y"
      [] c = "N" -> "n"
      [] c = "E" -> "e"
      [] c = "S" -> "s"
      [] c = "O" -> "o"
      [] OTHER -> c

Lower(s) == [k \in 1..Len(s) |-> LowerChar(s[k])]

\* the positions of t at which a line ends: a "\n", or a "\r" that no "\n" follows
LineEnds(t) ==
    {i \in 1..Len(t) : \/ t[i] = "\n"
                       \/ t[i] = "\r" /\ ~(i < Len(t) /\ t[i + 1] = "\n")}

\* the lines of t from position s on; a last piece without terminator is a
\* line when it is not empty
RECURSIVE SplitFrom(_, _, _, _)
SplitFrom(t, s, ends, keep) ==
    LET rest == {e \in ends : e >= s}
    IN  IF rest = {}
        THEN IF s <= Len(t) THEN <<SubSeq(t, s, Len(t))>> ELSE <<>>
        ELSE LET e == CHOOSE x \in rest : \A y \in rest : x <= y
                 crlf == t[e] = "\n" /\ e > s /\ t[e - 1] = "\r"
             IN  <<SubSeq(t, s, IF keep THEN e ELSE IF crlf THEN e - 2 ELSE e - 1)>>
                 \o SplitFrom(t, e + 1, ends, keep)

\* str.splitlines(keepends): a line ends at "\n", "\r" or "\r\n"
SplitLines(t, keep) == SplitFrom(t, 1, LineEnds(t), keep)

\* text.replace("\r\n", "\n").replace("\r", "\n")
NormalizeNewlines(t) ==
    LET kept == SelectSeq([i \in 1..Len(t) |-> i],
                          LAMBDA i : ~(t[i] = "\r" /\ i < Len(t) /\ t[i + 1] = "\n"))
    IN  [k \in 1..Len(kept) |-> IF t[kept[k]] = "\r" THEN "\n" ELSE t[kept[k]]]

(***************************************************************************)
(* Unified diff parsing                                                    *)
(***************************************************************************)

Digits == {"0", "1", "2", "3", "4", "5", "6", "7", "8", "9"}

DigitVal ==
    ("0" :> 0) @@ ("1" :> 1) @@ ("2" :> 2) @@ ("3" :> 3) @@ ("4" :> 4) @@
    ("5" :> 5) @@ ("6" :> 6) @@ ("7" :> 7) @@ ("8" :> 8) @@ ("9" :> 9)

\* int(digits)
RECURSIVE ToInt(_)
ToInt(ds) ==
    IF ds = <<>> THEN 0 ELSE 10 * ToInt(SubSeq(ds, 1, Len(ds) - 1)) + DigitVal[ds[Len(ds)]]

\* the position after the run of digits \d* that starts at position p
RECURSIVE DigitsEnd(_, _)
DigitsEnd(l, p) == IF p <= Len(l) /\ l[p] \in Digits THEN DigitsEnd(l, p + 1) ELSE p

\* One "-<start>[,<count>]" or "+<start>[,<count>]" range of the hunk header:
\* its digits start at position p, the start ends before q and the range
\* before r: [ok, start, count, next].
RangeAt(l, p, q, r) ==
    [ok    |-> q > p,
     start |-> ToInt(SubSeq(l, p, q - 1)),
     count |-> IF r > q + 1 THEN ToInt(SubSeq(l, q + 1, r - 1)) ELSE 1,
     next  |-> IF r > q + 1 THEN r ELSE q]

\* the end of the range whose start ends before q: a "," and digits may follow
CountEnd(l, q) == IF q <= Len(l) /\ l[q] = "," THEN DigitsEnd(l, q + 1) ELSE q

\* the range whose start ends before q
RangeFrom(l, p, q) == RangeAt(l, p, q, CountEnd(l, q))

\* the range whose digits start at position p
HunkRange(l, p) == RangeFrom(l, p, DigitsEnd(l, p))

\* the match once the old range o and the new range n are read: " @@" follows
HunkNumbers(l, o, n) ==
    IF ~n.ok \/ ~StartsWith(Drop(l, n.next - 1), <<" ", "@", "@">>) THEN None
    ELSE Some([old_start |-> o.start, old_count |-> o.count,
               new_start |-> n.start, new_count |-> n.count])

\* the match once the old range o is read: " +" and the new range follow
HunkNewRange(l, o) ==
    IF ~o.ok \/ ~StartsWith(Drop(l, o.next - 1), <<" ", "+">>) THEN None
    ELSE HunkNumbers(l, o, HunkRange(l, o.next + 2))

\* _HUNK_RE.match(line): None, or the four numbers of the header
\* "@@ -a[,b] +c[,d] @@" the line starts with (omitted counts default to 1).
HunkMatch(l) ==
    IF ~StartsWith(l, <<"@", "@", " ", "-">>) THEN None ELSE HunkNewRange(l, HunkRange(l, 5))

MinusHeader == <<"-", "-", "-", " ">>

PlusHeader == <<"+", "+", "+", " ">>

NoNewlineMarker ==
    <<"\\", " ", "N", "o", " ", "n", "e", "w", "l", "i", "n", "e", " ", "a", "t", " ",
      "e", "n", "d", " ", "o", "f", " ", "f", "i", "l", "e">>

DevNull == <<"/", "d", "e", "v", "/", "n", "u", "l", "l">>

\* Hunk(old_start, old_count, new_start, new_count, lines)
Hunk(m, body) ==
    [old_start |-> m.old_start, old_count |-> m.old_count,
     new_start |-> m.new_start, new_count |-> m.new_count, lines |-> body]

\* FilePatch(path, hunks)
FilePatch(path, hunks) == [path |-> path, hunks |-> hunks]

\* finish_hunk(): the pending hunk joins the current file, if both exist
FinishHunk(st) ==
    [st EXCEPT
       !.cur = IF st.pending # None /\ st.cur # None
               THEN Some([st.cur[1] EXCEPT !.hunks = Append(@, st.pending[1])])
               ELSE @,
       !.pending = None]

\* start_file(path): the current file, if any, is closed and a new one opened
StartFile(st, path) ==
    LET closed == IF st.cur # None
                  THEN LET f == FinishHunk(st)
                       IN  [f EXCEPT !.file_patches = Append(@, f.cur[1])]
                  ELSE st
    IN  [closed EXCEPT !.cur = Some(FilePatch(path, <<>>))]

\* the index of the first line at or after i that starts with "+++ "
RECURSIVE FindPlus(_, _)
FindPlus(lines, i) ==
    IF i <= Len(lines) /\ ~StartsWith(lines[i], PlusHeader) THEN FindPlus(lines, i + 1) ELSE i

\* new_path without its "a/" or "b/" prefix
StripPrefix(p) ==
    IF StartsWith(p, <<"a", "/">>) \/ StartsWith(p, <<"b", "/">>) THEN Drop(p, 2) ELSE p

\* new_path = None if new_path == "/dev/null"
NoneIfDevNull(q) == IF q = DevNull THEN None ELSE Some(q)

\* a target path that does not single out /dev/null
NewPathOfAnySection(plus) == Some(StripPrefix(Strip(Drop(plus, 4))))

\* the target path of a "+++ " line; None for /dev/null
NewPath(plus) == NoneIfDevNull(StripPrefix(Strip(Drop(plus, 4))))

\* the inner loop that collects the body of a hunk from line i on:
\* <<index of the line that ended the body, body lines>>
RECURSIVE CollectBody(_, _, _)
CollectBody(lines, i, acc) ==
    IF i > Len(lines) THEN <<i, acc>>
    ELSE LET l == lines[i]
         IN  IF StartsWith(l, MinusHeader) \/ StartsWith(l, PlusHeader) \/ HunkMatch(l) # None
             THEN <<i, acc>>
             ELSE IF l # <<>> /\ l[1] \in {" ", "+", "-"}
             THEN CollectBody(lines, i + 1, Append(acc, l))
             ELSE IF l = NoNewlineMarker
             THEN CollectBody(lines, i + 1, acc)
             ELSE CollectBody(lines, i + 1, Append(acc, <<" ">> \o l))

RECURSIVE ParseLoop(_, _, _)

\* cur_new_path = new_path; start_file(new_path) when there is one
OpenFile(st, np) ==
    IF np # None /\ np[1] # <<>>
    THEN StartFile([st EXCEPT !.cur_new_path = np], np[1])
    ELSE [st EXCEPT !.cur_new_path = np]

\* a "--- " line whose "+++ " line is line j: the loop ends when there is none
FileHeader(lines, j, st) ==
    IF j > Len(lines) THEN st ELSE ParseLoop(lines, j + 1, OpenFile(st, NewPath(lines[j])))

\* a hunk header with the numbers m whose body b = <<next line, body>> is read
PendHunk(lines, st, m, b) ==
    ParseLoop(lines, b[1], [FinishHunk(st) EXCEPT !.pending = Some(Hunk(m, b[2]))])

\* a hunk header that starts a hunk whether or not a file is open
HunkHeaderAnywhere(lines, i, st, m) ==
    IF m = None
    THEN ParseLoop(lines, i + 1, st)
    ELSE PendHunk(lines, st, m[1], CollectBody(lines, i + 1, <<>>))

\* line i is not a "--- " line and _HUNK_RE gives m on it
HunkHeader(lines, i, st, m) ==
    IF m = None \/ st.cur = None \/ st.cur_new_path = None
    THEN ParseLoop(lines, i + 1, st)
    ELSE PendHunk(lines, st, m[1], CollectBody(lines, i + 1, <<>>))

\* the main loop of _parse_unified_diff_multifile, from line i (1-based)
ParseLoop(lines, i, st) ==
    IF i > Len(lines) THEN st
    ELSE IF StartsWith(lines[i], MinusHeader)
    THEN FileHeader(lines, FindPlus(lines, i + 1), st)
    ELSE HunkHeader(lines, i, st, HunkMatch(lines[i]))

\* the end of _parse_unified_diff_multifile: the last hunk and file are closed
Finalize(fin) ==
    IF fin.cur # None THEN Append(fin.file_patches, fin.cur[1]) ELSE fin.file_patches

\* _parse_unified_diff_multifile(text)
ParseUnifiedDiffMultifile(text) ==
    Finalize(FinishHunk(ParseLoop(SplitLines(text, FALSE), 1,
                                  [file_patches |-> <<>>, cur |-> None, pending |-> None,
                                   cur_new_path |-> None])))

\* the first FilePatch of fps whose path is the record's path (any, when the
\* record has no path); None when there is none
RECURSIVE FirstMatching(_, _)
FirstMatching(fps, path) ==
    IF fps = <<>> THEN None
    ELSE IF Head(fps).path = path \/ path = <<>> THEN Some(Head(fps))
    ELSE FirstMatching(Tail(fps), path)

\* the record's FilePatch among the parsed fps of a full diff
PickMatching(fps, path) ==
    LET hit == FirstMatching(fps, path)
    IN  IF hit # None THEN hit[1]
        ELSE IF fps # <<>> THEN fps[1] ELSE FilePatch(path, <<>>)

\* the first parsed FilePatch of a fragment, or an empty one for the path
FirstOrEmpty(fps, path) == IF fps # <<>> THEN fps[1] ELSE FilePatch(path, <<>>)

\* f"--- a/{path}\n+++ b/{path}\n{udiff}"
FakeDiff(path, udiff) ==
    <<"-", "-", "-", " ", "a", "/">> \o path \o <<"\n">>
    \o <<"+", "+", "+", " ", "b", "/">> \o path \o <<"\n">>
    \o udiff

\* _parse_one_file_patch_dict({"path": path, "unified_diff": udiff})
ParseOneFilePatchDict(p) ==
    IF StartsWith(p.unified_diff, MinusHeader)
    THEN PickMatching(ParseUnifiedDiffMultifile(p.unified_diff), p.path)
    ELSE FirstOrEmpty(ParseUnifiedDiffMultifile(FakeDiff(p.path, p.unified_diff)), p.path)

(***************************************************************************)
(* difflib.SequenceMatcher (no junk; the autojunk heuristic only acts on   *)
(* a second sequence of 200 or more elements)                              *)
(***************************************************************************)

\* the length of the longest block a[i:i+k] = b[j:j+k] inside a[alo:ahi], b[blo:bhi]
LongestLen(a, alo, ahi, b, blo, bhi) ==
    LET Has(k) == \E i \in alo..(ahi - k), j \in blo..(bhi - k) :
                      SubSeq(a, i + 1, i + k) = SubSeq(b, j + 1, j + k)
        ks == {k \in 0..Min(ahi - alo, bhi - blo) : Has(k)}
    IN  CHOOSE k \in ks : \A m \in ks : m <= k

\* of the blocks of length k the one that starts earliest in a, and of those
\* the one that starts earliest in b: <<i, j, k>>
FirstBlock(a, alo, ahi, b, blo, bhi, k) ==
    LET at == {p \in (alo..(ahi - k)) \X (blo..(bhi - k)) :
                  SubSeq(a, p[1] + 1, p[1] + k) = SubSeq(b, p[2] + 1, p[2] + k)}
        first == CHOOSE p \in at :
                    \A q \in at : p[1] < q[1] \/ (p[1] = q[1] /\ p[2] <= q[2])
    IN  IF k = 0 THEN <<alo, blo, 0>> ELSE <<first[1], first[2], k>>

\* SequenceMatcher.find_longest_match(alo, ahi, blo, bhi)
FindLongestMatch(a, alo, ahi, b, blo, bhi) ==
    FirstBlock(a, alo, ahi, b, blo, bhi, LongestLen(a, alo, ahi, b, blo, bhi))

RECURSIVE MatchCount(_, _, _, _, _, _)

\* the size of the longest block m and of the blocks to its left and right
AroundMatch(a, alo, ahi, b, blo, bhi, m) ==
    IF m[3] = 0 THEN 0
    ELSE m[3] + MatchCount(a, alo, m[1], b, blo, m[2])
              + MatchCount(a, m[1] + m[3], ahi, b, m[2] + m[3], bhi)

\* the total size of SequenceMatcher.get_matching_blocks() inside the two ranges
MatchCount(a, alo, ahi, b, blo, bhi) ==
    IF alo >= ahi \/ blo >= bhi THEN 0
    ELSE AroundMatch(a, alo, ahi, b, blo, bhi, FindLongestMatch(a, alo, ahi, b, blo, bhi))

\* SequenceMatcher(a=a, b=b).ratio() = 2.0 * matches / (len(a) + len(b)), 1.0 when both are empty
Ratio(a, b) ==
    IF Len(a) + Len(b) = 0 THEN [num |-> 1, den |-> 1]
    ELSE [num |-> 2 * MatchCount(a, 0, Len(a), b, 0, Len(b)), den |-> Len(a) + Len(b)]

\* r > s on ratios
RatioGt(r, s) == r.num * s.den > s.num * r.den

\* a comparison that rejects a ratio equal to the cutoff
RatioAbove(r, cutoff) == 100 * r.num > cutoff * r.den

\* ratio >= cutoff, the cutoff in hundredths (0.66 is 66).  The float 0.66 is
\* not 33/50, but a ratio 2*M/T equals 33/50 only when T is a multiple of
\* 100, which is beyond the texts compared here.
RatioGe(r, cutoff) == 100 * r.num >= cutoff * r.den

One == [num |-> 1, den |-> 1]

Zero == [num |-> 0, den |-> 1]

(***************************************************************************)
(* Hunk application                                                        *)
(***************************************************************************)

\* [l[1:] for l in hunk.lines if l.startswith(tags)]
Chunk(hunk, tags) ==
    LET sel == SelectSeq(hunk.lines, LAMBDA l : l # <<>> /\ l[1] \in tags)
    IN  [k \in 1..Len(sel) |-> Tail(sel[k])]

OldChunk(hunk) == Chunk(hunk, {" ", "-"})

NewChunk(hunk) == Chunk(hunk, {" ", "+"})

\* re.sub(r"[ \t]+", " ", x)
RECURSIVE CollapseSpace(_)
CollapseSpace(x) ==
    IF x = <<>> THEN <<>>
    ELSE IF Head(x) \in {" ", "\t"}
    THEN IF Len(x) >= 2 /\ x[2] \in {" ", "\t"} THEN CollapseSpace(Tail(x))
         ELSE <<" ">> \o CollapseSpace(Tail(x))
    ELSE <<Head(x)>> \o CollapseSpace(Tail(x))

\* norm(seq) of _apply_single_hunk
Norm(seq, ignore_space) ==
    IF ignore_space
    THEN [k \in 1..Len(seq) |->
            CollapseSpace(RStrip(seq[k])) \o (IF EndsWith(seq[k], <<"\n">>) THEN <<"\n">> ELSE <<>>)]
    ELSE seq

\* a search that does not find the empty needle
FindNonEmptySubsequence(haystack, needle) ==
    LET n == Len(needle)
        at == {i \in 0..(Len(haystack) - n) : SubSeq(haystack, i + 1, i + n) = needle}
    IN  IF n = 0 \/ n > Len(haystack) \/ at = {} THEN None
        ELSE LET i == CHOOSE x \in at : \A y \in at : x <= y IN Some(<<i, i + n>>)

\* _find_subsequence(haystack, needle): None or the first <<start, end>>
FindSubsequence(haystack, needle) ==
    LET n == Len(needle)
        at == {i \in 0..(Len(haystack) - n) : SubSeq(haystack, i + 1, i + n) = needle}
    IN  IF n = 0 THEN Some(<<0, 0>>)
        ELSE IF n > Len(haystack) \/ at = {} THEN None
        ELSE LET i == CHOOSE x \in at : \A y \in at : x <= y IN Some(<<i, i + n>>)

\* a splice that drops the lines after the span
SpliceToEnd(lines, i, j, chunk) == SubSeq(lines, 1, i) \o chunk

\* lines[i:j] = chunk
Splice(lines, i, j, chunk) == SubSeq(lines, 1, i) \o chunk \o SubSeq(lines, j + 1, Len(lines))

\* the windows (start, start + length) for one start, lengths ascending from lo to hi
RECURSIVE WindowsAt(_, _, _)
WindowsAt(start, lo, hi) ==
    IF lo > hi THEN <<>> ELSE <<(<<start, start + lo>>)>> \o WindowsAt(start, lo + 1, hi)

SlackMin == 3

SlackMax == 12

SampleTarget == 2000

\* candidate_ranges of _apply_single_hunk, for starts from `start` on
RECURSIVE CandidateRanges(_, _, _, _)
CandidateRanges(n, target_len, slack, start) ==
    IF start > n - Max(1, target_len - slack) THEN <<>>
    ELSE WindowsAt(start, Max(1, target_len - slack), Min(n - start, target_len + slack))
         \o CandidateRanges(n, target_len, slack, start + 1)

\* candidate_ranges[::step]
Sampled(cands, step) ==
    [k \in 1..((Len(cands) + step - 1) \div step) |-> cands[(k - 1) * step + 1]]

\* "if ratio > best_ratio": the best window so far after window w scored ratio
Better(best, w, ratio) ==
    IF best.pos = None \/ RatioGt(ratio, best.ratio)
    THEN [ratio |-> ratio, pos |-> Some(w)] ELSE best

\* the text of the window w of the buffer, "".join(n_lines[i:j])
Window(n_lines, w) == Join(SubSeq(n_lines, w[1] + 1, w[2]))

\* the scoring loop: the first window of the best ratio, [ratio, pos]
RECURSIVE BestWindow(_, _, _, _, _)
BestWindow(n_lines, ref, cands, k, best) ==
    IF k > Len(cands) THEN best
    ELSE BestWindow(n_lines, ref, cands, k + 1,
                    Better(best, cands[k], Ratio(Window(n_lines, cands[k]), ref)))

\* _HunkApplyOutcome, with the buffer the call leaves behind
Outcome(lines, applied, already, exact, ratio, notes) ==
    [lines |-> lines, applied |-> applied, already_applied |-> already,
     exact |-> exact, ratio |-> ratio, notes |-> notes]

\* a decision chain that looks for the new chunk before the old chunk
StepAlreadyFirst(pos, pos_new, best, ratio_cutoff) ==
    IF pos_new # None THEN "already"
    ELSE IF pos # None THEN "exact"
    ELSE IF best.pos # None /\ RatioGe(best.ratio, ratio_cutoff) THEN "fuzzy"
    ELSE "reject"

\* the order in which _apply_single_hunk decides: 1) the old chunk is found,
\* 2) the new chunk is found, 3) the best window clears the cutoff, else reject
Step(pos, pos_new, best, ratio_cutoff) ==
    IF pos # None THEN "exact"
    ELSE IF pos_new # None THEN "already"
    ELSE IF best.pos # None /\ RatioGe(best.ratio, ratio_cutoff) THEN "fuzzy"
    ELSE "reject"

\* a slack without its cap of 12 lines
SlackUncapped(target_len) == Max(SlackMin, target_len \div 3)

\* the slack of the fuzzy search around target_len lines
Slack(target_len) == Min(SlackMax, Max(SlackMin, target_len \div 3))

\* candidate_ranges[::step] with step = max(1, len(candidate_ranges) // 2000)
Candidates(cands) == Sampled(cands, Max(1, Len(cands) \div SampleTarget))

\* the fuzzy search for target_len lines like n_old_chunk in n_lines
FuzzySearch(n_lines, n_old_chunk, target_len) ==
    BestWindow(n_lines, Join(n_old_chunk),
               Candidates(CandidateRanges(Len(n_lines), target_len, Slack(target_len), 0)),
               1, [ratio |-> Zero, pos |-> None])

\* what _apply_single_hunk returns when its searches gave pos, pos_new and best
Decide(lines, new_chunk, pos, pos_new, best, ratio_cutoff) ==
    LET decision == Step(pos, pos_new, best, ratio_cutoff)
    IN  IF decision = "exact"
        THEN Outcome(Splice(lines, pos[1][1], pos[1][2], new_chunk), TRUE, FALSE, TRUE, One, <<>>)
        ELSE IF decision = "already"
        THEN Outcome(lines, FALSE, TRUE, TRUE, One, <<"already applied">>)
        ELSE IF decision = "fuzzy"
        THEN Outcome(Splice(lines, best.pos[1][1], best.pos[1][2], new_chunk),
                     TRUE, FALSE, FALSE, best.ratio,
                     <<"fuzzy match at", best.pos[1][1], best.pos[1][2]>>)
        ELSE Outcome(lines, FALSE, FALSE, FALSE, best.ratio, <<"no suitable anchor">>)

\* the searches of _apply_single_hunk on the normalised buffer and chunks
Search(lines, new_chunk, n_lines, n_old_chunk, n_new_chunk, ratio_cutoff) ==
    Decide(lines, new_chunk,
           FindSubsequence(n_lines, n_old_chunk),
           FindSubsequence(n_lines, n_new_chunk),
           FuzzySearch(n_lines, n_old_chunk, Max(1, Len(n_old_chunk))),
           ratio_cutoff)

\* _apply_single_hunk(lines, hunk, ignore_space=, ratio_cutoff=)
ApplySingleHunk(lines, hunk, ignore_space, ratio_cutoff) ==
    Search(lines, NewChunk(hunk), Norm(lines, ignore_space),
           Norm(OldChunk(hunk), ignore_space), Norm(NewChunk(hunk), ignore_space),
           ratio_cutoff)

\* a count of the "+ " lines only
CountAddedLines(before, after) ==
    Len(after) - MatchCount(before, 0, Len(before), after, 0, Len(after))

\* _count_changed_lines(before, after): the "- " and "+ " lines of
\* difflib.ndiff, i.e. the lines of either list outside the matching blocks
CountChangedLines(before, after) ==
    Len(before) + Len(after) - 2 * MatchCount(before, 0, Len(before), after, 0, Len(after))

(***************************************************************************)
(* Paths (pathlib on POSIX, no symbolic links)                             *)
(***************************************************************************)

\* path.split("/")
RECURSIVE SplitSlash(_, _)
SplitSlash(path, cur) ==
    IF path = <<>> THEN <<cur>>
    ELSE IF Head(path) = "/" THEN <<cur>> \o SplitSlash(Tail(path), <<>>)
    ELSE SplitSlash(Tail(path), Append(cur, Head(path)))

\* the parts of PurePosixPath(path) without the root: empty and "." parts vanish
Parts(path) == SelectSeq(SplitSlash(path, <<>>), LAMBDA c : c # <<>> /\ c # <<".">>)

IsAbsolute(path) == path # <<>> /\ Head(path) = "/"

\* Path.resolve() of absolute parts: ".." removes the part before it
RECURSIVE ResolveParts(_, _)
ResolveParts(done, rest) ==
    IF rest = <<>> THEN done
    ELSE IF Head(rest) = <<".", ".">>
    THEN ResolveParts(IF done = <<>> THEN done ELSE SubSeq(done, 1, Len(done) - 1), Tail(rest))
    ELSE ResolveParts(Append(done, Head(rest)), Tail(rest))

\* (pathlib.Path(root) / path).resolve(), as the parts below "/"; cwd is the
\* absolute directory a relative root is resolved against
ResolvePath(cwd, root, path) ==
    LET base == IF IsAbsolute(root) THEN Parts(root) ELSE cwd \o Parts(root)
    IN  ResolveParts(<<>>, IF IsAbsolute(path) THEN Parts(path) ELSE base \o Parts(path))

\* Path.parent
Parent(parts) == IF parts = <<>> THEN <<>> ELSE SubSeq(parts, 1, Len(parts) - 1)

\* the directories mkdir(parents=True) makes sure of: dir and all above it
Ancestors(dir) == {SubSeq(dir, 1, k) : k \in 0..Len(dir)}

\* `needle in text` on str
IsSubstring(needle, text) ==
    \E i \in 0..(Len(text) - Len(needle)) : SubSeq(text, i + 1, i + Len(needle)) = needle

(***************************************************************************)
(* The per-file applier                                                    *)
(***************************************************************************)

\* HunkReport(index, applied, already_applied, exact_match, ratio, notes)
HunkReport(idx, r) ==
    [index |-> idx, applied |-> r.applied, already_applied |-> r.already_applied,
     exact_match |-> r.exact, ratio |-> r.ratio, notes |-> r.notes]

\* FileReport(path, applied, changed_lines, hunk_reports, notes); the preview
\* text is not modelled
FileReport(path, applied, changed_lines, hunk_reports, notes) ==
    [path |-> path, applied |-> applied, changed_lines |-> changed_lines,
     hunk_reports |-> hunk_reports, notes |-> notes]

RECURSIVE RunHunks(_, _, _, _, _)

\* the loop goes on after hunk idx gave the outcome r on the buffer lines
AfterHunk(lines, hunks, idx, opts, acc, r) ==
    RunHunks(r.lines, hunks, idx + 1, opts,
             [reports |-> Append(acc.reports, HunkReport(idx - 1, r)),
              buffers |-> Append(acc.buffers, lines)])

\* a loop that stops after the first hunk that was neither applied nor
\* already applied
RunHunksUntilReject(lines, hunks, idx, opts, acc) ==
    IF \/ idx > Len(hunks)
       \/ /\ acc.reports # <<>>
          /\ ~acc.reports[Len(acc.reports)].applied
          /\ ~acc.reports[Len(acc.reports)].already_applied
    THEN [lines |-> lines, reports |-> acc.reports, buffers |-> Append(acc.buffers, lines)]
    ELSE AfterHunk(lines, hunks, idx, opts, acc,
                   ApplySingleHunk(lines, hunks[idx], opts.ignore_space, opts.ratio_cutoff))

\* the loop over fp.hunks of _apply_file_patch: the buffer after the hunks
\* from idx on, their reports, and the buffer each hunk met (buffers[k] is
\* the buffer before hunk k, the last element the final buffer)
RunHunks(lines, hunks, idx, opts, acc) ==
    IF idx > Len(hunks)
    THEN [lines |-> lines, reports |-> acc.reports, buffers |-> Append(acc.buffers, lines)]
    ELSE AfterHunk(lines, hunks, idx, opts, acc,
                   ApplySingleHunk(lines, hunks[idx], opts.ignore_space, opts.ratio_cutoff))

\* the directory of the backup of a file with the parts rel
BackupDir(cwd, backup_dir, relpath, rel) ==
    IF IsAbsolute(relpath) THEN Parent(rel)
    ELSE (IF IsAbsolute(backup_dir) THEN <<>> ELSE cwd) \o Parts(backup_dir) \o Parent(rel)

\* the backup file of a file with the parts rel
BackupOf(cwd, backup_dir, relpath, ts, rel) ==
    [dir |-> ResolveParts(<<>>, BackupDir(cwd, backup_dir, relpath, rel)),
     name |-> IF rel = <<>> THEN <<>> ELSE rel[Len(rel)], ts |-> ts]

\* a backup file named without the time
BackupPathUntimed(cwd, backup_dir, relpath, ts) ==
    BackupOf(cwd, backup_dir, relpath, 0, Parts(relpath))

\* the file a backup is written to: <backups_dir>/<dir of relpath>/<name>.bak.<ts>
BackupPath(cwd, backup_dir, relpath, ts) ==
    BackupOf(cwd, backup_dir, relpath, ts, Parts(relpath))

\* the backup b is written: creating its directory may raise, a failed write
\* of the backup is swallowed
WriteBackup(w, b, original_text, env) ==
    IF env.backup_dir_fails /\ b.dir \notin w.dirs
    THEN [w EXCEPT !.raised = TRUE]
    ELSE [w EXCEPT
            !.dirs = @ \cup Ancestors(b.dir),
            !.backups = IF env.backup_write_fails THEN @
                        ELSE [k \in DOMAIN @ \cup {b} |-> IF k = b THEN original_text ELSE @[k]]]

\* _ensure_backup(backup_dir, relpath, original_text) at clock time ts
EnsureBackup(w, cwd, backup_dir, relpath, original_text, env, ts) ==
    WriteBackup(w, BackupPath(cwd, backup_dir, relpath, ts), original_text, env)

\* a write condition that forgets the dry run
ShouldWriteAlways(changed, opts) == changed

\* "if changed and not opts.dry_run": the file is backed up and written
ShouldWrite(changed, opts) == changed /\ ~opts.dry_run

\* what _apply_file_patch returns: the world it leaves, its FileReport (None
\* when an exception leaves the function) and the buffers its hunks met
Returned(w, report, buffers) == [world |-> w, report |-> report, buffers |-> buffers]

\* the world in which the file at path holds text
WithFile(w, path, text) ==
    [w EXCEPT !.files = [k \in DOMAIN @ \cup {path} |-> IF k = path THEN text ELSE @[k]]]

\* path.write_text("".join(old_lines)) after the backup left the world wb:
\* open(path, "w") may raise (write_fails) and leave the file as it is, or the
\* write may raise once the file is open and truncated (write_breaks), as it
\* does for text that UTF-8 cannot encode
WriteTarget(wb, fp, env, path, run, changed, changed_lines) ==
    IF wb.raised \/ env.write_fails \/ path \in wb.dirs
    THEN Returned([wb EXCEPT !.raised = FALSE],
                  Some(FileReport(fp.path, FALSE, 0, run.reports, <<"Write error">>)),
                  run.buffers)
    ELSE IF env.write_breaks
    THEN Returned(WithFile(wb, path, <<>>),
                  Some(FileReport(fp.path, FALSE, 0, run.reports, <<"Write error">>)),
                  run.buffers)
    ELSE Returned(WithFile(wb, path, Join(run.lines)),
                  Some(FileReport(fp.path, changed, changed_lines, run.reports, <<>>)),
                  run.buffers)

\* the end of _apply_file_patch once the hunks ran on original_lines
Finish(w1, fp, opts, env, ts, path, original_lines, run) ==
    IF ShouldWrite(run.lines # original_lines, opts)
    THEN WriteTarget(EnsureBackup(w1, env.cwd, opts.backups_dir, fp.path,
                                  Join(original_lines), env, ts),
                     fp, env, path, run, run.lines # original_lines,
                     CountChangedLines(original_lines, run.lines))
    ELSE Returned(w1,
                  Some(FileReport(fp.path, run.lines # original_lines,
                                  CountChangedLines(original_lines, run.lines),
                                  run.reports, <<>>)),
                  run.buffers)

\* the hunks of fp are applied to the lines of the target
Patch(w1, fp, opts, env, ts, path, original_lines) ==
    Finish(w1, fp, opts, env, ts, path, original_lines,
           RunHunks(original_lines, fp.hunks, 1, opts, [reports |-> <<>>, buffers |-> <<>>]))

\* the text of the target: empty when the file is missing, newlines
\* normalised when asked for
TargetText(w1, opts, path, raw) ==
    IF opts.normalize_newlines THEN NormalizeNewlines(raw) ELSE raw

\* a read that never fails
ReadTargetAnyway(w1, fp, opts, env, ts, path) ==
    Patch(w1, fp, opts, env, ts, path,
          SplitLines(TargetText(w1, opts, path,
                                IF path \in DOMAIN w1.files THEN w1.files[path] ELSE <<>>),
                     TRUE))

\* the target is read once its parent directory exists in w1
ReadTarget(w1, fp, opts, env, ts, path) ==
    IF (path \in DOMAIN w1.files \/ path \in w1.dirs) /\ (path \in w1.dirs \/ env.read_fails)
    THEN Returned(w1, Some(FileReport(fp.path, FALSE, 0, <<>>, <<"Read error">>)), <<>>)
    ELSE Patch(w1, fp, opts, env, ts, path,
               SplitLines(TargetText(w1, opts, path,
                                     IF path \in DOMAIN w1.files THEN w1.files[path] ELSE <<>>),
                          TRUE))

\* path.parent.mkdir(parents=True, exist_ok=True), outside any try
MakeParent(w, fp, opts, env, ts, path) ==
    IF \/ env.mkdir_fails /\ Parent(path) \notin w.dirs
       \/ \E d \in Ancestors(Parent(path)) : d \in DOMAIN w.files
    THEN Returned([w EXCEPT !.raised = TRUE], None, <<>>)
    ELSE ReadTarget([w EXCEPT !.dirs = @ \cup Ancestors(Parent(path))], fp, opts, env, ts, path)

\* _apply_file_patch(fp, opts) in the world w = [files, dirs, backups, raised]:
\* raised is set when an exception leaves the function.
ApplyFilePatch(w, fp, opts, env, ts) ==
    MakeParent(w, fp, opts, env, ts, ResolvePath(env.cwd, opts.repo_root, fp.path))

(***************************************************************************)
(* The public entry point                                                  *)
(***************************************************************************)

RECURSIVE RunFiles(_, _, _, _, _, _)

\* the loop goes on after file k gave r
AfterFile(acc, fps, k, opts, env, ts, r) ==
    RunFiles([world |-> r.world,
              reports |-> IF r.report = None THEN acc.reports
                          ELSE Append(acc.reports, r.report[1]),
              buffers |-> Append(acc.buffers, r.buffers)],
             fps, k + 1, opts, env, ts)

\* the loop over file_patches of apply_patches; it ends early when an
\* exception leaves _apply_file_patch
RunFiles(acc, fps, k, opts, env, ts) ==
    IF k > Len(fps) \/ acc.world.raised THEN acc
    ELSE AfterFile(acc, fps, k, opts, env, ts, ApplyFilePatch(acc.world, fps[k], opts, env, ts))

\* the parsed patches: a str is parsed as a multi-file diff, a list of
\* records one record at a time
ParsePatches(patches) ==
    IF patches.kind = "text" THEN ParseUnifiedDiffMultifile(patches.text)
    ELSE [k \in 1..Len(patches.records) |-> ParseOneFilePatchDict(patches.records[k])]

\* "if path_filter: file_patches = [fp for fp in file_patches if path_filter in fp.path]"
Filter(fps, path_filter) ==
    IF path_filter # None /\ path_filter[1] # <<>>
    THEN SelectSeq(fps, LAMBDA fp : IsSubstring(path_filter[1], fp.path))
    ELSE fps

\* the FilePatch list apply_patches works on
FilePatches(patches, path_filter) == Filter(ParsePatches(patches), path_filter)

\* what apply_patches leaves and returns once the loop over fps gave r
Reports(fps, r) ==
    [world |-> r.world, reports |-> IF r.world.raised THEN <<>> ELSE r.reports,
     raised |-> r.world.raised, buffers |-> r.buffers, file_patches |-> fps]

\* the loop of apply_patches over the FilePatch list fps
ApplyAll(w, fps, opts, env, ts) ==
    Reports(fps, RunFiles([world |-> w, reports |-> <<>>, buffers |-> <<>>], fps, 1, opts, env, ts))

\* apply_patches(patches, options=opts, path_filter=path_filter) in world w
ApplyPatches(w, patches, opts, path_filter, env, ts) ==
    ApplyAll(w, FilePatches(patches, path_filter), opts, env, ts)

(***************************************************************************)
(* The summary the REPL prints after a call                                *)
(***************************************************************************)

\* "any(hr.applied and hr.exact_match for hr in fr.hunk_reports)"
ExactApplied(fr) ==
    \E k \in 1..Len(fr.hunk_reports) : fr.hunk_reports[k].applied /\ fr.hunk_reports[k].exact_match

\* "any(hr.applied and not hr.exact_match for hr in fr.hunk_reports)"
FuzzyApplied(fr) ==
    \E k \in 1..Len(fr.hunk_reports) : fr.hunk_reports[k].applied /\ ~fr.hunk_reports[k].exact_match

\* "not any(hr.applied for hr in fr.hunk_reports)"
NoneApplied(fr) == ~\E k \in 1..Len(fr.hunk_reports) : fr.hunk_reports[k].applied

\* all(...) without the guard for the empty list
AlreadyAllOfAny(fr) ==
    \A k \in 1..Len(fr.hunk_reports) : fr.hunk_reports[k].already_applied

\* "all(hr.already_applied for hr in fr.hunk_reports) if fr.hunk_reports else False"
AlreadyAll(fr) ==
    IF fr.hunk_reports # <<>>
    THEN \A k \in 1..Len(fr.hunk_reports) : fr.hunk_reports[k].already_applied
    ELSE FALSE

\* the if/elif chain of the loop body: the counter the report fr adds to
Bucket(fr) ==
    IF ExactApplied(fr) THEN "ok"
    ELSE IF FuzzyApplied(fr) THEN "fuzz"
    ELSE IF NoneApplied(fr) /\ ~AlreadyAll(fr) THEN "rej"
    ELSE "none"

RECURSIVE SummFrom(_, _, _)

\* the loop of _summ_counts from report k on, with the counters so far
SummFrom(file_reports, k, acc) ==
    IF k > Len(file_reports) THEN acc
    ELSE SummFrom(file_reports, k + 1,
                  [b \in {"ok", "fuzz", "rej"} |->
                      acc[b] + (IF Bucket(file_reports[k]) = b THEN 1 ELSE 0)])

\* _summ_counts(file_reports): the counters ok, fuzz, rej
SummCounts(file_reports) ==
    SummFrom(file_reports, 1, [b \in {"ok", "fuzz", "rej"} |-> 0])

(***************************************************************************)
(* The model the CLI talks to (bones_cli.py)                               *)
(***************************************************************************)

\* "gpt-4o-mini"
DefaultModel == <<"g", "p", "t", "-", "4", "o", "-", "m", "i", "n", "i">>

\* os.getenv(key, "").strip(): the empty string when the variable is unset
GetEnv(environ, key) == Strip(IF environ[key] = None THEN <<>> ELSE environ[key][1])

\* the loop "for key in (...)" from key k on: the first non-blank value
RECURSIVE FirstSet(_, _, _)
FirstSet(environ, keys, k) ==
    IF k > Len(keys) THEN DefaultModel
    ELSE IF GetEnv(environ, keys[k]) # <<>> THEN GetEnv(environ, keys[k])
    ELSE FirstSet(environ, keys, k + 1)

\* a lookup that asks OPENAI_MODEL before BONES_MODEL
FromEnvOpenAIFirst(environ) == FirstSet(environ, <<"OPENAI_MODEL", "BONES_MODEL">>, 1)

\* for key in ("BONES_MODEL", "OPENAI_MODEL"): ...; return "gpt-4o-mini"
FromEnv(environ) == FirstSet(environ, <<"BONES_MODEL", "OPENAI_MODEL">>, 1)

\* _choose_model(cli_model) in the environment environ
ChooseModel(cli_model, environ) ==
    IF cli_model # None /\ cli_model[1] # <<>> /\ Strip(cli_model[1]) # <<>>
    THEN Strip(cli_model[1])
    ELSE FromEnv(environ)

(***************************************************************************)
(* Inputs                                                                  *)
(***************************************************************************)

\* the number of lines of a generated target file
MaxFileLines == 2

\* the number of body lines of a generated hunk
MaxHunkLines == 2

\* the seconds the clock can advance between two calls
MaxClock == 1

\* all sequences over S of length at most n
SeqsUpTo(S, n) == UNION {[1..k -> S] : k \in 0..n}

\* the process's working directory and the target every generated record names
Cwd == <<(<<"r", "e", "p", "o">>)>>

TargetName == <<"f">>

\* ApplyOptions() with dry_run as given: the defaults of the dataclass
DefaultOptions(dry_run) ==
    [dry_run |-> dry_run, repo_root |-> <<".">>, ratio_cutoff |-> 66, ignore_space |-> FALSE,
     normalize_newlines |-> TRUE,
     backups_dir |-> <<".", "b", "o", "n", "e", "s", "/", "b", "a", "c", "k", "u", "p", "s">>]

\* an environment in which no filesystem call fails
NoFailure ==
    [cwd |-> Cwd, mkdir_fails |-> FALSE, read_fails |-> FALSE, backup_dir_fails |-> FALSE,
     backup_write_fails |-> FALSE, write_fails |-> FALSE, write_breaks |-> FALSE]

TargetPath == ResolvePath(Cwd, <<".">>, TargetName)

\* generated file texts: up to MaxFileLines lines "A" or "B", each ended by a
\* newline, and the same texts without the newline of the last line
FileLineSet == {<<"A", "\n">>, <<"B", "\n">>}

GenericTexts ==
    LET full == {Join(ls) : ls \in SeqsUpTo(FileLineSet, MaxFileLines)}
    IN  full \cup {SubSeq(t, 1, Len(t) - 1) : t \in full \ {<<>>}}

\* "line1\nline2\nline3\n"
ExampleText ==
    <<"l", "i", "n", "e", "1", "\n", "l", "i", "n", "e", "2", "\n", "l", "i", "n", "e", "3", "\n">>

\* "A\nB\nC\n"
OrderText == <<"A", "\n", "B", "\n", "C", "\n">>

\* "a  b\n" and "a\tb \n"
SpaceTexts == {<<"a", " ", " ", "b", "\n">>, <<"a", "\t", "b", " ", "\n">>}

\* "A\r\n" and "A\rB\r": files with CRLF and with CR line endings
CrlfTexts == {<<"A", "\r", "\n">>, <<"A", "\r", "B", "\r">>}

InitialTexts == GenericTexts \cup {ExampleText, OrderText} \cup SpaceTexts \cup CrlfTexts

\* "@@ -1 +1 @@" and the body lines, each followed by a newline
HunkText(body) ==
    Join(<<(<<"@", "@", " ", "-", "1", " ", "+", "1", " ", "@", "@", "\n">>)>>
         \o [k \in 1..Len(body) |-> body[k] \o <<"\n">>])

\* a record {path, unified_diff} whose fragment holds the hunks
RecordFor(path, bodies) ==
    [path |-> path, unified_diff |-> Join([k \in 1..Len(bodies) |-> HunkText(bodies[k])])]

Record(bodies) == RecordFor(TargetName, bodies)

Records(recs) == [kind |-> "records", records |-> recs]

HunkLineSet == {<<tag>> \o t : tag \in {" ", "-", "+"}, t \in {<<"A">>, <<"B">>}}

GenericBodies == SeqsUpTo(HunkLineSet, MaxHunkLines)

\* the hunk of the end-to-end example: -line2 +line2-changed
ExampleBody ==
    << <<"-", "l", "i", "n", "e", "2">>,
       <<"+", "l", "i", "n", "e", "2", "-", "c", "h", "a", "n", "g", "e", "d">> >>

\* hunk 1 of the order example, A -> A1, and hunks that fit the file hunk 1
\* leaves, "A1\nB\nC\n", and whose context holds "A1"
OrderBody1 == << <<"-", "A">>, <<"+", "A", "1">> >>

OrderBodies2 ==
    { << <<" ", "A", "1">>, <<"-", "B">>, <<"+", "B", "2">> >>,
      << <<" ", "A", "1">>, <<"+", "X">> >>,
      << <<" ", "A", "1">>, <<" ", "B">>, <<"-", "C">>, <<"+", "D">> >>,
      << <<" ", "A", "1">>, <<"-", "B">> >> }

\* hunks whose old lines differ from the SpaceTexts in whitespace only
SpaceBodies ==
    { << <<"-", "a", " ", "b">>, <<"+", "c">> >>,
      << <<" ", "a", " ", " ", " ", "b">>, <<"+", "c">> >> }

\* the hunk that adds one empty line
BlankLineBody == << <<"+">> >>

\* hunks that are paired into two-hunk fragments
PairBodies ==
    { << <<"+", "A">> >>, << <<"+", "B">> >>, << <<"-", "A">>, <<"+", "B">> >>,
      << <<" ", "A">>, <<"-", "B">> >> }

\* a target in a directory that does not exist yet
SubdirName == <<"d", "/", "g">>

\* the environments in which exactly one kind of filesystem call fails
FailureEnvs ==
    {[NoFailure EXCEPT ![k] = TRUE] :
        k \in {"mkdir_fails", "read_fails", "backup_dir_fails", "backup_write_fails", "write_fails",
               "write_breaks"}}

\* "../g", a path that leaves the repository, and the absolute path "/e/g"
ParentRelativeName == <<".", ".", "/", "g">>

AbsoluteName == <<"/", "e", "/", "g">>

\* ratio_cutoff=0.5, a cutoff that the ratio of short texts can equal
HalfCutoff == 50

\* a batch of two records for the same target
SameTargetBatch ==
    Records(<<Record(<< << <<"+", "A">> >> >>), Record(<< << <<"+", "B">> >> >>)>>)

\* a batch of two records for the same target: a hunk that finds no anchor in
\* a file without "B" and a hunk that adds a line, then a hunk that adds a line
RejectThenApplyBatch ==
    Records(<<Record(<< << <<"-", "B">>, <<"+", "B">> >>, << <<"+", "A">> >> >>),
              Record(<< << <<"+", "B">> >> >>)>>)

\* the calls of apply_patches the model makes: [patches, opts, path_filter]
Call(patches, opts) == [patches |-> patches, opts |-> opts, path_filter |-> None]

CallInputs ==
    {Call(Records(<<Record(<<b>>)>>), DefaultOptions(d)) :
        b \in GenericBodies \cup {ExampleBody, BlankLineBody}, d \in BOOLEAN}
    \cup {Call(Records(<<Record(hs)>>), DefaultOptions(FALSE)) :
            hs \in {<<OrderBody1, h2>> : h2 \in OrderBodies2}
                   \cup {<<h2, OrderBody1>> : h2 \in OrderBodies2}}
    \cup {Call(Records(<<Record(<<b>>)>>), [DefaultOptions(FALSE) EXCEPT !.ignore_space = i]) :
            b \in SpaceBodies, i \in BOOLEAN}
    \cup {Call(Records(<<Record(<<b1, b2>>)>>), DefaultOptions(FALSE)) :
            b1 \in PairBodies, b2 \in PairBodies}
    \cup {Call(SameTargetBatch, DefaultOptions(FALSE)), Call(RejectThenApplyBatch, DefaultOptions(FALSE))}
    \cup {Call(Records(<<RecordFor(p, << << <<"+", "A">> >> >>)>>), DefaultOptions(d)) :
            p \in {ParentRelativeName, AbsoluteName}, d \in BOOLEAN}
    \cup {Call(Records(<<Record(<<b>>)>>), [DefaultOptions(FALSE) EXCEPT !.ratio_cutoff = HalfCutoff]) :
            b \in GenericBodies}

\* a batch of two records: the target in the new directory, then the target
BatchOfTwo ==
    Records(<<RecordFor(SubdirName, << << <<"+", "A">> >> >>),
              RecordFor(TargetName, << << <<"+", "A">> >> >>)>>)

\* the calls made in a failing environment
FailureCalls ==
    {Call(Records(<<RecordFor(p, <<b>>)>>), DefaultOptions(d)) :
        p \in {TargetName, SubdirName},
        b \in {<< <<"+", "A">> >>, << <<"-", "A">>, <<"+", "B">> >>},
        d \in BOOLEAN}
    \cup {Call(BatchOfTwo, DefaultOptions(FALSE))}

(***************************************************************************)
(* Inputs of the parsers                                                   *)
(***************************************************************************)

\* the number of lines of a generated diff fragment
MaxFragmentLines == 3

\* the number of file sections of a generated multi-file diff
MaxSections == 3

\* the longest buffer and old chunk of the fuzzy search on its own
MaxBufferLines == 30

MaxOldLines == 40

\* the lines joined by "\n", with a "\n" after the last
TextOfLines(lines) == Join([k \in 1..Len(lines) |-> lines[k] \o <<"\n">>])

HeaderOne == <<"@", "@", " ", "-", "1", " ", "+", "1", " ", "@", "@">>

\* "@@ -2,3 +2,4 @@ ctx"
HeaderTwo ==
    <<"@", "@", " ", "-", "2", ",", "3", " ", "+", "2", ",", "4", " ", "@", "@", " ", "c", "t", "x">>

\* "--- a/<name>" and "+++ b/<name>"
MinusLine(name) == <<"-", "-", "-", " ", "a", "/">> \o name

PlusLine(name) == <<"+", "+", "+", " ", "b", "/">> \o name

\* "+++ /dev/null"
DevNullLine == PlusHeader \o DevNull

\* the lines of generated fragments: hunk headers, body lines, a line without
\* prefix, and file headers
FragmentLines ==
    {HeaderOne, HeaderTwo, <<"-", "a">>, <<"+", "b">>, <<" ", "c">>, <<"x">>,
     MinusLine(<<"f">>), PlusLine(<<"f">>)}

\* the lines of arbitrary texts: those of fragments, "+++ /dev/null" and a
\* "+++ " line without a path
TextLines == FragmentLines \cup {DevNullLine, PlusHeader}

\* the paths of generated records
RecordPaths ==
    {<<"f">>, <<"d", "/", "g">>, <<"a", "/", "f">>, <<"f", " ">>, DevNull}

ParseRecords ==
    {[path |-> p, unified_diff |-> TextOfLines(ls)] :
        p \in RecordPaths, ls \in SeqsUpTo(FragmentLines, MaxFragmentLines)}

\* a file section: its name, whether its "+++ " line names /dev/null, and
\* the bodies of its hunks
SectionLines(sec) ==
    <<MinusLine(sec.name), IF sec.deleted THEN DevNullLine ELSE PlusLine(sec.name)>>
    \o Join([k \in 1..Len(sec.hunks) |-> <<HeaderOne>> \o sec.hunks[k]])

\* the removed line "-- x" reads "--- x"
KeptHunkLists ==
    { <<>>,
      << << <<"-", "a">>, <<"+", "b">> >> >>,
      << << <<"-", "a">>, <<"+", "b">> >>, << <<" ", "c">>, <<"+", "d">> >> >>,
      << << <<"-", "-", "-", " ", "x">>, <<"+", "y">> >> >> }

DeletedLine == <<"-", "g", "o", "n", "e">>

DeletedHunkLists ==
    { <<>>,
      << <<DeletedLine>> >>,
      << <<DeletedLine>>, <<DeletedLine, DeletedLine>> >>,
      << << <<"-", "-", "-", " ", "x">>, DeletedLine >> >> }

Sections ==
    {[name |-> n, deleted |-> FALSE, hunks |-> hs] : n \in {<<"f">>, <<"g">>}, hs \in KeptHunkLists}
    \cup {[name |-> <<"o", "l", "d">>, deleted |-> TRUE, hunks |-> hs] : hs \in DeletedHunkLists}

\* the text of a multi-file diff made of the sections
DiffOf(secs) == TextOfLines(Join([k \in 1..Len(secs) |-> SectionLines(secs[k])]))

(***************************************************************************)
(* The state machine                                                       *)
(***************************************************************************)

VARIABLES
    world,   \* the filesystem: [files, dirs, backups, raised]
    clock,   \* the wall clock, in seconds
    calls,   \* the number of apply_patches calls made
    last,    \* None, or the last call of apply_patches with what it returned
    parsed,  \* None, or the last call of a pure function with what it returned
    repl,    \* the REPL session: its staged lists and its place in the ":w" command
    race     \* two invocations of apply_patches in two processes, step by step

vars == <<world, clock, calls, last, parsed, repl, race>>

\* no invocation is under way in either process
NewRace ==
    [procs |-> [p \in {1, 2} |-> [pc |-> "idle"]], trace |-> <<>>, before |-> None]

\* BonesRepl() after __init__: nothing staged, the prompt not yet shown
NewRepl ==
    [pc |-> "start", staged_patches |-> <<>>, staged_writes |-> <<>>, log |-> <<>>,
     answer |-> None, said |-> None, before |-> None]

\* a filesystem that holds the working directory and, when text is not None,
\* the target file with that text
WorldWith(text) ==
    [files |-> IF text = None THEN <<>> ELSE [p \in {TargetPath} |-> text[1]],
     dirs |-> Ancestors(Cwd), backups |-> <<>>, raised |-> FALSE]

Init ==
    /\ world \in {WorldWith(t) : t \in {None} \cup {Some(x) : x \in InitialTexts}}
    /\ clock = 0
    /\ calls = 0
    /\ last = None
    /\ parsed = None
    /\ repl = NewRepl
    /\ race = NewRace

\* the call c under env returned r: the world it left and the record of the
\* call, with the counts the REPL prints for the reports
Return(c, env, r) ==
    /\ world' = [r.world EXCEPT !.raised = FALSE]
    /\ last' = Some([call |-> c, env |-> env, before |-> world, at |-> clock,
                     reports |-> r.reports, raised |-> r.raised, buffers |-> r.buffers,
                     file_patches |-> r.file_patches, run |-> calls + 1, prev |-> last,
                     counts |-> SummCounts(r.reports)])
    /\ calls' = calls + 1
    /\ UNCHANGED <<clock, parsed, repl, race>>

\* one call apply_patches(c.patches, options=c.opts, path_filter=c.path_filter)
DoCall(c, env) ==
    Return(c, env, ApplyPatches(world, c.patches, c.opts, c.path_filter, env, clock))

\* a first call of apply_patches
Apply ==
    /\ calls = 0
    /\ \E c \in CallInputs : DoCall(c, NoFailure)

\* a first call of apply_patches while one kind of filesystem call fails
ApplyUnderFailure ==
    /\ calls = 0
    /\ \E c \in FailureCalls, env \in FailureEnvs : DoCall(c, env)

\* the caller repeats its last call with the same arguments
ApplyAgain ==
    /\ calls = 1
    /\ DoCall(last[1].call, last[1].env)

\* time passes between the two calls
Tick ==
    /\ calls = 1
    /\ clock < MaxClock
    /\ clock' = clock + 1
    /\ UNCHANGED <<world, calls, last, parsed, repl, race>>

Next == Apply \/ ApplyUnderFailure \/ ApplyAgain \/ Tick

Spec == Init /\ [][Next]_vars

(***************************************************************************)
(* The parsers as pure functions: one call on one generated input          *)
(***************************************************************************)

InitParse ==
    /\ world = WorldWith(None)
    /\ clock = 0
    /\ calls = 0
    /\ last = None
    /\ parsed = None
    /\ repl = NewRepl
    /\ race = NewRace

\* _parse_one_file_patch_dict(rec)
ParseRecord ==
    /\ parsed = None
    /\ \E rec \in ParseRecords :
          parsed' = Some([kind |-> "record", record |-> rec, sections |-> <<>>,
                          result |-> <<ParseOneFilePatchDict(rec)>>])
    /\ UNCHANGED <<world, clock, calls, last, repl, race>>

\* _parse_unified_diff_multifile(text) on a diff of up to MaxSections sections
ParseText ==
    /\ parsed = None
    /\ \E secs \in SeqsUpTo(Sections, MaxSections) :
          parsed' = Some([kind |-> "text", record |-> DiffOf(secs), sections |-> secs,
                          result |-> ParseUnifiedDiffMultifile(DiffOf(secs))])
    /\ UNCHANGED <<world, clock, calls, last, repl, race>>

\* _parse_unified_diff_multifile(text) on a text of up to MaxFragmentLines
\* arbitrary lines
ParseLines ==
    /\ parsed = None
    /\ \E ls \in SeqsUpTo(TextLines, MaxFragmentLines) :
          parsed' = Some([kind |-> "lines", record |-> TextOfLines(ls), sections |-> <<>>,
                          result |-> ParseUnifiedDiffMultifile(TextOfLines(ls))])
    /\ UNCHANGED <<world, clock, calls, last, repl, race>>

NextParse == ParseRecord \/ ParseText \/ ParseLines

SpecParse == InitParse /\ [][NextParse]_vars

(***************************************************************************)
(* _choose_model as a pure function: one call on one generated input       *)
(***************************************************************************)

\* model names: empty, blank, plain, and with blanks around them
ModelNames ==
    {<<>>, <<" ">>, <<"m">>, <<" ", "m", " ">>, <<"o">>, <<"\t", "o">>, <<"c">>, <<"c", " ">>}

\* an argument or a variable: absent, or one of the names
MaybeNames == {None} \cup {Some(n) : n \in ModelNames}

\* _choose_model(cli_model) with BONES_MODEL and OPENAI_MODEL as drawn
ChooseModelCall ==
    /\ parsed = None
    /\ \E c \in MaybeNames, b \in MaybeNames, o \in MaybeNames :
          parsed' = Some([kind |-> "model", cli_model |-> c,
                          environ |-> [k \in {"BONES_MODEL", "OPENAI_MODEL"} |->
                                          IF k = "BONES_MODEL" THEN b ELSE o],
                          result |-> ChooseModel(c, [k \in {"BONES_MODEL", "OPENAI_MODEL"} |->
                                                        IF k = "BONES_MODEL" THEN b ELSE o])])
    /\ UNCHANGED <<world, clock, calls, last, repl, race>>

SpecChoose == InitParse /\ [][ChooseModelCall]_vars

(***************************************************************************)
(* The fuzzy search of _apply_single_hunk as a pure function               *)
(***************************************************************************)

\* n copies of x
Repeat(x, n) == [k \in 1..n |-> x]

\* an old chunk of m lines, empty lines and a last line "A", with a buffer of
\* n lines "A\n"
LongInput(n, m) == <<Repeat(<<"A", "\n">>, n), Repeat(<<>>, m - 1) \o <<(<<"A">>)>> >>

\* old chunks of up to MaxOldLines lines with buffers of up to MaxBufferLines
\* lines: buffers no longer than a chunk of up to 8 lines, and buffers 9 to 13
\* lines shorter than the chunk, so that few windows or none are within the
\* slack
LongInputs ==
    {LongInput(p[1], p[2]) :
        p \in {q \in (0..MaxBufferLines) \X (1..MaxOldLines) :
                  (q[2] <= 8 /\ q[1] <= q[2]) \/ q[2] - q[1] \in 9..13}}

\* short buffers and old chunks over the lines "A" and "B"
ShortBuffers == SeqsUpTo(FileLineSet, MaxFileLines)

ShortChunks == SeqsUpTo({<<"A">>, <<"B">>}, MaxHunkLines)

\* the fuzzy step of _apply_single_hunk on a buffer and an old chunk: the
\* windows it scores and the window it retains
FuzzyCall ==
    /\ parsed = None
    /\ \E in \in LongInputs \cup (ShortBuffers \X ShortChunks) :
          parsed' = Some([kind |-> "fuzzy", n_lines |-> in[1], n_old_chunk |-> in[2],
                          windows |-> Candidates(CandidateRanges(Len(in[1]), Max(1, Len(in[2])),
                                                                 Slack(Max(1, Len(in[2]))), 0)),
                          best |-> FuzzySearch(in[1], in[2], Max(1, Len(in[2])))])
    /\ UNCHANGED <<world, clock, calls, last, repl, race>>

SpecFuzzy == InitParse /\ [][FuzzyCall]_vars

(***************************************************************************)
(* The ":w" command of the REPL (repl_base.py)                             *)
(***************************************************************************)

\* ApplyOptions(dry_run=dry_run, ratio_cutoff=0.70, ignore_space=False)
ReplOptions(dry_run) == [DefaultOptions(dry_run) EXCEPT !.ratio_cutoff = 70]

\* pathlib.Path(rel).read_text(...), "" when the read raises
ReadOldText(w, rel) ==
    IF ResolvePath(Cwd, <<".">>, rel) \in DOMAIN w.files
    THEN w.files[ResolvePath(Cwd, <<".">>, rel)]
    ELSE <<>>

\* difflib's range of a hunk header over n lines that start at line 1
FormatRangeUnified(n) ==
    IF n = 1 THEN <<"1">>
    ELSE IF n = 0 THEN <<"0", ",", "0">>
    ELSE <<"1", ",">> \o <<CHOOSE d \in Digits : d = ToString(n)>>

\* "".join(difflib.unified_diff(a, b, fromfile="a/"+rel, tofile="b/"+rel, n=3))
\* for line lists a and b that are equal or share no line, as any two texts of
\* at most one line are: nothing when they are equal, else one hunk that
\* removes the lines of a and adds the lines of b
UnifiedDiff(a, b, rel) ==
    IF a = b THEN <<>>
    ELSE <<"-", "-", "-", " ", "a", "/">> \o rel \o <<"\n">>
         \o <<"+", "+", "+", " ", "b", "/">> \o rel \o <<"\n">>
         \o <<"@", "@", " ", "-">> \o FormatRangeUnified(Len(a))
         \o <<" ", "+">> \o FormatRangeUnified(Len(b)) \o <<" ", "@", "@", "\n">>
         \o Join([k \in 1..Len(a) |-> <<"-">> \o a[k]])
         \o Join([k \in 1..Len(b) |-> <<"+">> \o b[k]])

\* the diff of one staged write against the disk
WriteDiff(w, wr) ==
    UnifiedDiff(SplitLines(ReadOldText(w, wr.path), TRUE), SplitLines(wr.content, TRUE),
                wr.path)

\* _writes_to_unified_diffs(writes): a record for every write whose diff is
\* not empty
RECURSIVE WritesToUnifiedDiffs(_, _)
WritesToUnifiedDiffs(w, writes) ==
    IF writes = <<>> THEN <<>>
    ELSE (IF WriteDiff(w, Head(writes)) # <<>>
          THEN <<[path |-> Head(writes).path, unified_diff |-> WriteDiff(w, Head(writes))]>>
          ELSE <<>>)
         \o WritesToUnifiedDiffs(w, Tail(writes))

\* "list(self._staged_patches) + self._writes_to_unified_diffs(self._staged_writes)"
Combined(w, r) == r.staged_patches \o WritesToUnifiedDiffs(w, r.staged_writes)

\* confirm(): a blank answer counts as yes
ConfirmedByDefault(ans) ==
    Strip(ans) = <<>> \/ StartsWith(Lower(Strip(ans)), <<"y">>)

\* "confirm = (await self.read_line(...)).strip().lower()" and
\* "confirm.startswith("y")"
Confirmed(ans) == StartsWith(Lower(Strip(ans)), <<"y">>)

\* disk texts of at most one line, the patches a turn stages and the files a
\* turn proposes to write
ReplTexts == {<<"A", "\n">>, <<"B", "\n">>, <<"A">>}

StagedPatchInputs ==
    {<<Record(<<b>>)>> : b \in { << <<"+", "A">> >>, << <<"-", "A">>, <<"+", "B">> >>,
                                 << <<" ", "A">>, <<"+", "B">> >> }}

StagedWriteInputs ==
    {<<[path |-> TargetName, content |-> t]>> : t \in ReplTexts \cup {<<>>}}

\* what the user types at the confirmation prompt
Answers ==
    {<<>>, <<"y">>, <<"Y">>, <<" ", "y", "e", "s">>, <<"n">>, <<"N">>, <<"n", "o", " ">>,
     <<"o", "k">>}

InitRepl ==
    /\ world \in {WorldWith(t) : t \in {None} \cup {Some(x) : x \in ReplTexts}}
    /\ clock = 0
    /\ calls = 0
    /\ last = None
    /\ parsed = None
    /\ repl = [NewRepl EXCEPT !.pc = "prompt"]
    /\ race = NewRace

\* a state-machine turn whose outcome holds patches, before the first ":w"
StagePatches ==
    /\ repl.pc = "prompt"
    /\ repl.said = None
    /\ repl.staged_patches = <<>>
    /\ \E ps \in StagedPatchInputs : repl' = [repl EXCEPT !.staged_patches = ps]
    /\ UNCHANGED <<world, clock, calls, last, parsed, race>>

\* a state-machine turn whose outcome holds writes, before the first ":w"
StageWrites ==
    /\ repl.pc = "prompt"
    /\ repl.said = None
    /\ repl.staged_writes = <<>>
    /\ \E ws \in StagedWriteInputs : repl' = [repl EXCEPT !.staged_writes = ws]
    /\ UNCHANGED <<world, clock, calls, last, parsed, race>>

\* the REPL made the dry run r of the patch list combined and asks
AfterDryRun(combined, r) ==
    /\ world' = [r.world EXCEPT !.raised = FALSE]
    /\ repl' = [repl EXCEPT !.pc = IF r.raised THEN "crashed" ELSE "confirm",
                            !.log = <<[dry_run |-> TRUE, patches |-> combined]>>,
                            !.answer = None,
                            !.said = Some("Dry-run"),
                            !.before = Some([files |-> world.files, backups |-> world.backups,
                                             staged_patches |-> repl.staged_patches,
                                             staged_writes |-> repl.staged_writes])]

\* the user types ":w" or ":write": up to the confirmation prompt
WriteCommand ==
    /\ repl.pc = "prompt"
    /\ IF repl.staged_patches = <<>> /\ repl.staged_writes = <<>>
       THEN /\ repl' = [repl EXCEPT !.said = Some("Nothing staged."), !.log = <<>>,
                                    !.answer = None, !.before = None]
            /\ UNCHANGED world
       ELSE AfterDryRun(Combined(world, repl),
                        ApplyPatches(world, Records(Combined(world, repl)), ReplOptions(TRUE),
                                     None, NoFailure, clock))
    /\ UNCHANGED <<clock, calls, last, parsed, race>>

\* the REPL made the real run r of the patch list combined
AfterRealRun(ans, combined, r) ==
    /\ world' = [r.world EXCEPT !.raised = FALSE]
    /\ repl' = IF r.raised
               THEN [repl EXCEPT !.pc = "crashed", !.answer = Some(ans),
                                 !.log = Append(@, [dry_run |-> FALSE, patches |-> combined])]
               ELSE [repl EXCEPT !.pc = "prompt", !.answer = Some(ans),
                                 !.log = Append(@, [dry_run |-> FALSE, patches |-> combined]),
                                 !.said = Some("Apply"),
                                 !.staged_patches = <<>>, !.staged_writes = <<>>]

\* the user answers the confirmation prompt
Answer ==
    /\ repl.pc = "confirm"
    /\ \E ans \in Answers :
          IF Confirmed(ans)
          THEN AfterRealRun(ans, repl.log[1].patches,
                            ApplyPatches(world, Records(repl.log[1].patches), ReplOptions(FALSE),
                                         None, NoFailure, clock))
          ELSE /\ repl' = [repl EXCEPT !.pc = "prompt", !.answer = Some(ans),
                                       !.said = Some("Aborted write.")]
               /\ UNCHANGED world
    /\ UNCHANGED <<clock, calls, last, parsed, race>>

NextRepl == StagePatches \/ StageWrites \/ WriteCommand \/ Answer

SpecRepl == InitRepl /\ [][NextRepl]_vars

(***************************************************************************)
(* Two processes that call apply_patches on the same target                *)
(***************************************************************************)

\* the two processes, and the letter that the patch of each adds to the file
Invocations == {1, 2}

Mark(p) == IF p = 1 THEN "A" ELSE "B"

\* the patches of process p: a hunk that adds a line, and a hunk that
\* replaces the line "X" by that line
RacePatches(p) ==
    {ParseOneFilePatchDict(Record(<<b>>)) :
        b \in { << <<"+", Mark(p)>> >>, << <<"-", "X">>, <<"+", Mark(p)>> >> }}

\* the target before the two calls: missing, "X" or "X\n"
RaceTexts == {None, Some(<<"X">>), Some(<<"X", "\n">>)}

\* ApplyOptions(dry_run=False) in both processes
RaceOptions == DefaultOptions(FALSE)

InitRace ==
    /\ world \in {WorldWith(t) : t \in RaceTexts}
    /\ clock = 0
    /\ calls = 0
    /\ last = None
    /\ parsed = None
    /\ repl = NewRepl
    /\ \E fp1 \in RacePatches(1), fp2 \in RacePatches(2) :
          race = [procs |-> [p \in Invocations |->
                                [pc |-> "start", fp |-> IF p = 1 THEN fp1 ELSE fp2]],
                  trace |-> <<>>, before |-> world]

\* process p took the step named step: its new state and the trace
Stepped(p, step, state) ==
    race' = [race EXCEPT !.procs[p] = state, !.trace = Append(@, <<p, step>>)]

\* the bytes a write of text at offset 0 leaves in a file that holds existing
Overlay(existing, text) == text \o Drop(existing, Len(text))

\* process p has read the target and run its hunks on the lines in memory;
\* without a change of the buffer it returns its report
HasRead(p, fp, seen, original_lines, run) ==
    IF ShouldWrite(run.lines # original_lines, RaceOptions)
    THEN Stepped(p, "read", [pc |-> "read", fp |-> fp, seen |-> seen,
                             original_lines |-> original_lines, run |-> run])
    ELSE Stepped(p, "read", [pc |-> "done", fp |-> fp, seen |-> seen,
                             original_lines |-> original_lines, run |-> run,
                             backup |-> None, wrote |-> None,
                             report |-> FileReport(fp.path, FALSE,
                                                   CountChangedLines(original_lines, run.lines),
                                                   run.reports, <<>>)])

\* "raw = path.read_bytes() if path.exists() else b"""" and the loop over the
\* hunks, in process p
RaceRead(p) ==
    /\ race.procs[p].pc = "start"
    /\ HasRead(p, race.procs[p].fp,
               IF TargetPath \in DOMAIN world.files THEN world.files[TargetPath] ELSE <<>>,
               SplitLines(TargetText(world, RaceOptions, TargetPath,
                                     IF TargetPath \in DOMAIN world.files
                                     THEN world.files[TargetPath] ELSE <<>>), TRUE),
               RunHunks(SplitLines(TargetText(world, RaceOptions, TargetPath,
                                              IF TargetPath \in DOMAIN world.files
                                              THEN world.files[TargetPath] ELSE <<>>), TRUE),
                        race.procs[p].fp.hunks, 1, RaceOptions,
                        [reports |-> <<>>, buffers |-> <<>>]))
    /\ UNCHANGED <<world, clock, calls, last, parsed, repl>>

\* _ensure_backup(...) in process p, at the second the clock shows
RaceBackup(p) ==
    /\ race.procs[p].pc = "read"
    /\ world' = EnsureBackup(world, Cwd, RaceOptions.backups_dir, race.procs[p].fp.path,
                             Join(race.procs[p].original_lines), NoFailure, clock)
    /\ Stepped(p, "backup",
               [race.procs[p] EXCEPT !.pc = "backed"]
                   @@ [backup |-> Some(BackupPath(Cwd, RaceOptions.backups_dir,
                                                  race.procs[p].fp.path, clock)),
                       backup_at |-> clock])
    /\ UNCHANGED <<clock, calls, last, parsed, repl>>

\* path.write_text(...) in process p, first half: open(path, "w") truncates
\* the target
RaceOpen(p) ==
    /\ race.procs[p].pc = "backed"
    /\ world' = WithFile(world, TargetPath, <<>>)
    /\ Stepped(p, "open", [race.procs[p] EXCEPT !.pc = "opened"])
    /\ UNCHANGED <<clock, calls, last, parsed, repl>>

\* path.write_text(...) in process p, second half: the text is written at
\* the start of the file, and _apply_file_patch returns its report
RaceWrite(p) ==
    /\ race.procs[p].pc = "opened"
    /\ world' = WithFile(world, TargetPath,
                         Overlay(world.files[TargetPath], Join(race.procs[p].run.lines)))
    /\ Stepped(p, "write",
               [race.procs[p] EXCEPT !.pc = "done"]
                   @@ [wrote |-> Some(Join(race.procs[p].run.lines)),
                       report |-> FileReport(race.procs[p].fp.path, TRUE,
                                             CountChangedLines(race.procs[p].original_lines,
                                                               race.procs[p].run.lines),
                                             race.procs[p].run.reports, <<>>)])
    /\ UNCHANGED <<clock, calls, last, parsed, repl>>

\* a second passes while an invocation is under way
RaceTick ==
    /\ \E p \in Invocations : race.procs[p].pc \notin {"idle", "done"}
    /\ clock < MaxClock
    /\ clock' = clock + 1
    /\ UNCHANGED <<world, calls, last, parsed, repl, race>>

NextRace ==
    \/ \E p \in Invocations : RaceRead(p) \/ RaceBackup(p) \/ RaceOpen(p) \/ RaceWrite(p)
    \/ RaceTick

SpecRace == InitRace /\ [][NextRace]_vars

(***************************************************************************)
(* Properties of apply_patches                                             *)
(***************************************************************************)

NL == <<"\n">>

\* the hunks of the last call that were reported: <<file index, hunk index>>
ReportedHunks ==
    IF last = None THEN {}
    ELSE UNION {{<<f, h>> : h \in 1..Len(last[1].reports[f].hunk_reports)} :
                  f \in 1..Len(last[1].reports)}

\* the report, the hunk and the buffer the hunk met, for c in ReportedHunks
ReportOf(c) == last[1].reports[c[1]].hunk_reports[c[2]]

HunkOf(c) == last[1].file_patches[c[1]].hunks[c[2]]

BufferBefore(c) == last[1].buffers[c[1]][c[2]]

BufferAfter(c) == last[1].buffers[c[1]][c[2] + 1]

\* the last call was the first call, made without failures on a target file
\* whose text is t, with the given arguments
FirstCallOn(t, c) ==
    /\ last # None
    /\ last[1].run = 1
    /\ last[1].env = NoFailure
    /\ last[1].before = WorldWith(Some(t))
    /\ last[1].call = c

\* "line1\nline2-changed\nline3\n"
ExampleResult ==
    <<"l", "i", "n", "e", "1", "\n",
      "l", "i", "n", "e", "2", "-", "c", "h", "a", "n", "g", "e", "d", "\n",
      "l", "i", "n", "e", "3", "\n">>

ExampleCall == Call(Records(<<Record(<<ExampleBody>>)>>), DefaultOptions(FALSE))

\* C1: the real apply of the example hunk (-line2 +line2-changed) to
\* "line1\nline2\nline3\n" leaves "line1\nline2-changed\nline3\n" and returns
\* one FileReport, applied, with one HunkReport applied, exact, ratio 1.0.
C1_EndToEndExample ==
    FirstCallOn(ExampleText, ExampleCall) =>
        /\ world.files[TargetPath] = ExampleResult
        /\ Len(last[1].reports) = 1
        /\ last[1].reports[1].applied
        /\ Len(last[1].reports[1].hunk_reports) = 1
        /\ LET hr == last[1].reports[1].hunk_reports[1]
           IN  hr.applied /\ hr.exact_match /\ hr.ratio.num = hr.ratio.den

AllEndWithNewline(lines) == \A k \in 1..Len(lines) : EndsWith(lines[k], NL)

\* C2: when every line of the target ends with a newline, every line of the
\* buffer still ends with a newline after each hunk that was spliced in.
C2_LinesKeepNewline ==
    \A c \in ReportedHunks :
        AllEndWithNewline(last[1].buffers[c[1]][1]) => AllEndWithNewline(BufferAfter(c))

\* the call the record holds changed every file and rejected no hunk
AppliedCleanly(call) ==
    \A f \in 1..Len(call.reports) :
        /\ call.reports[f].applied
        /\ \A h \in 1..Len(call.reports[f].hunk_reports) :
              call.reports[f].hunk_reports[h].applied \/ call.reports[f].hunk_reports[h].already_applied

\* C3: after a real run that applied the patch, a second real run of the same
\* patch input reports every hunk already applied, the file not applied, and
\* leaves the file as the first run left it.
C3_Idempotence ==
    ( /\ last # None
      /\ last[1].run = 2
      /\ ~last[1].call.opts.dry_run
      /\ last[1].env = NoFailure
      /\ AppliedCleanly(last[1].prev[1]) ) =>
        /\ \A f \in 1..Len(last[1].reports) :
              /\ ~last[1].reports[f].applied
              /\ \A h \in 1..Len(last[1].reports[f].hunk_reports) :
                    last[1].reports[f].hunk_reports[h].already_applied
        /\ world.files = last[1].before.files

\* C4: a call with dry_run=true changes no file: neither a target nor a backup
\* is written, whatever the reports say.
C4_DryRunWritesNothing ==
    (last # None /\ last[1].call.opts.dry_run) =>
        /\ world.files = last[1].before.files
        /\ world.backups = last[1].before.backups

\* a dry run whose file report says the file would change
C4_Witness ==
    /\ last # None
    /\ last[1].call.opts.dry_run
    /\ \E f \in 1..Len(last[1].reports) : last[1].reports[f].applied

\* the old chunk, or the new chunk, of the hunk occurs in the buffer it met
ChunkFound(c, chunk) ==
    LET i == last[1].call.opts.ignore_space
    IN  FindSubsequence(Norm(BufferBefore(c), i), Norm(chunk, i)) # None

\* C5: whenever the old chunk occurs in the buffer the hunk is applied by the
\* exact step, also when the new chunk occurs; already-applied is reported
\* only when the old chunk does not occur.
C5_ExactMatchPrecedence ==
    \A c \in ReportedHunks :
        /\ ChunkFound(c, OldChunk(HunkOf(c))) =>
              ReportOf(c).applied /\ ReportOf(c).exact_match /\ ~ReportOf(c).already_applied
        /\ ReportOf(c).already_applied => ~ChunkFound(c, OldChunk(HunkOf(c)))

\* a hunk with different, non-empty old and new chunks that both occur in the
\* buffer, and that was applied
C5_Witness ==
    \E c \in ReportedHunks :
        /\ OldChunk(HunkOf(c)) # <<>>
        /\ OldChunk(HunkOf(c)) # NewChunk(HunkOf(c))
        /\ ChunkFound(c, OldChunk(HunkOf(c)))
        /\ ChunkFound(c, NewChunk(HunkOf(c)))
        /\ ReportOf(c).applied

\* C6: on "A\nB\nC\n", with hunk 1 = A -> A1 and a hunk 2 whose context holds
\* A1, the order [1,2] applies both hunks and the order [2,1] rejects hunk 2
\* (not applied, not already applied, buffer unchanged by it).
C6_OrderDependence ==
    \A h2 \in OrderBodies2 :
        /\ FirstCallOn(OrderText, Call(Records(<<Record(<<OrderBody1, h2>>)>>), DefaultOptions(FALSE)))
              => \A c \in ReportedHunks : ReportOf(c).applied
        /\ FirstCallOn(OrderText, Call(Records(<<Record(<<h2, OrderBody1>>)>>), DefaultOptions(FALSE)))
              => /\ ~ReportOf(<<1, 1>>).applied
                 /\ ~ReportOf(<<1, 1>>).already_applied
                 /\ BufferAfter(<<1, 1>>) = BufferBefore(<<1, 1>>)

\* C7: with ignore_space=true a hunk whose old lines differ from the file's
\* lines in whitespace only is applied by the exact step (applied, exact,
\* ratio 1.0) and the un-normalized new lines are spliced in.
C7_IgnoreSpaceExact ==
    \A t \in SpaceTexts, b \in SpaceBodies :
        FirstCallOn(t, Call(Records(<<Record(<<b>>)>>),
                            [DefaultOptions(FALSE) EXCEPT !.ignore_space = TRUE]))
            => /\ ReportOf(<<1, 1>>).applied
               /\ ReportOf(<<1, 1>>).exact_match
               /\ ReportOf(<<1, 1>>).ratio.num = ReportOf(<<1, 1>>).ratio.den
               /\ BufferAfter(<<1, 1>>) = NewChunk(HunkOf(<<1, 1>>))

\* C8 as stated: the end-to-end example, one line replaced by one different
\* line, is reported with changed_lines = 1.
C8_ExampleChangesOneLine ==
    FirstCallOn(ExampleText, ExampleCall) => last[1].reports[1].changed_lines = 1

\* fin is orig with exactly one line replaced by a line that orig does not
\* hold, and no line occurs twice in orig
OneLineReplaced(orig, fin) ==
    /\ Len(fin) = Len(orig)
    /\ \E i \in 1..Len(orig) :
          /\ \A j \in 1..Len(orig) : (fin[j] = orig[j]) <=> (j # i)
          /\ \A j \in 1..Len(orig) : fin[i] # orig[j]
    /\ \A i, j \in 1..Len(orig) : orig[i] = orig[j] => i = j

\* C8 amended: changed_lines counts the removed and the added lines of the
\* line diff, so a file whose buffer had one line replaced by one different
\* line is reported with changed_lines = 2.
C8_ReplacedLineCountsTwice ==
    last # None =>
        \A f \in 1..Len(last[1].reports) :
            ( /\ last[1].reports[f].notes = <<>>
              /\ last[1].buffers[f] # <<>>
              /\ OneLineReplaced(last[1].buffers[f][1],
                                 last[1].buffers[f][Len(last[1].buffers[f])]) )
            => last[1].reports[f].changed_lines = 2

\* the end-to-end example has been applied: one line of three was replaced
C8_Witness ==
    /\ FirstCallOn(ExampleText, ExampleCall)
    /\ OneLineReplaced(last[1].buffers[1][1], last[1].buffers[1][2])

\* C11: whatever filesystem call fails, apply_patches returns normally with
\* one FileReport per parsed FilePatch, in input order.
C11_NoFailureEscapes ==
    last # None =>
        /\ ~last[1].raised
        /\ Len(last[1].reports) = Len(last[1].file_patches)
        /\ \A f \in 1..Len(last[1].reports) :
              last[1].reports[f].path = last[1].file_patches[f].path

\* the buffer file f of the last call started from, and the one its hunks left
FirstBuffer(f) == last[1].buffers[f][1]

FinalBuffer(f) == last[1].buffers[f][Len(last[1].buffers[f])]

\* the hunks of file f of the last call changed the buffer
BufferChanged(f) == last[1].buffers[f] # <<>> /\ FinalBuffer(f) # FirstBuffer(f)

\* the file on disk that file f of the last call names
TargetOf(f) ==
    ResolvePath(last[1].env.cwd, last[1].call.opts.repo_root, last[1].file_patches[f].path)

\* the last call was a real apply in which only the backup step could fail
BackupFailed ==
    /\ last # None
    /\ ~last[1].call.opts.dry_run
    /\ \/ last[1].env = [NoFailure EXCEPT !.backup_dir_fails = TRUE]
       \/ last[1].env = [NoFailure EXCEPT !.backup_write_fails = TRUE]

\* C12: in a real apply whose buffer changed, a failure of the backup step
\* (its directory cannot be created, or its file cannot be written) is
\* swallowed: the target is overwritten with the final buffer and the file
\* is reported applied.
C12_BackupBestEffort ==
    BackupFailed =>
        \A f \in 1..Len(last[1].reports) :
            BufferChanged(f) =>
                /\ last[1].reports[f].applied
                /\ TargetOf(f) \in DOMAIN world.files
                /\ world.files[TargetOf(f)] = Join(FinalBuffer(f))

\* the content of the file at path p in the world w, None when there is none
FileAt(w, p) == IF p \in DOMAIN w.files THEN Some(w.files[p]) ELSE None

\* the last call was a real apply in which only the final write could fail
WriteFailed ==
    /\ last # None
    /\ ~last[1].call.opts.dry_run
    /\ \/ last[1].env = [NoFailure EXCEPT !.write_fails = TRUE]
       \/ last[1].env = [NoFailure EXCEPT !.write_breaks = TRUE]

\* C13: when the final write of a changed target fails, the FileReport says
\* applied=false, changed_lines=0, has a note and the hunk reports, and the
\* target's bytes on disk are what they were before the call.
C13_WriteFailureChangesNothing ==
    WriteFailed =>
        \A f \in 1..Len(last[1].reports) :
            BufferChanged(f) =>
                /\ ~last[1].reports[f].applied
                /\ last[1].reports[f].changed_lines = 0
                /\ last[1].reports[f].notes # <<>>
                /\ Len(last[1].reports[f].hunk_reports) = Len(last[1].file_patches[f].hunks)
                /\ FileAt(world, TargetOf(f)) = FileAt(last[1].before, TargetOf(f))

\* the bytes of the file at p in the world w, empty when there is no file
ContentAt(w, p) == IF p \in DOMAIN w.files THEN w.files[p] ELSE <<>>

\* the backup file that file f of the last call is saved to
BackupFileOf(f) ==
    BackupPath(last[1].env.cwd, last[1].call.opts.backups_dir, last[1].file_patches[f].path,
               last[1].at)

\* the last call was a real apply in which no filesystem call failed
RealApply == last # None /\ ~last[1].call.opts.dry_run /\ last[1].env = NoFailure

\* no earlier file of the last call's batch names the target of file f
FirstOnTarget(f) == \A g \in 1..(f - 1) : TargetOf(g) # TargetOf(f)

\* file f of the last call was written to its target
Overwritten(f) == BufferChanged(f) /\ last[1].reports[f].applied

\* C14: whenever a real apply overwrites a target, the backup written for it
\* holds the bytes the target had on disk before the call, also when the
\* file has CRLF or CR line endings.
C14_BackupKeepsOriginal ==
    RealApply =>
        \A f \in 1..Len(last[1].reports) :
            Overwritten(f) /\ FirstOnTarget(f) =>
                /\ BackupFileOf(f) \in DOMAIN world.backups
                /\ world.backups[BackupFileOf(f)] = ContentAt(last[1].before, TargetOf(f))

\* the files of the last call that were written to their targets
OverwrittenFiles == {f \in 1..Len(last[1].reports) : Overwritten(f)}

\* C15: every real apply that changes a target writes a backup file of its
\* own and leaves every earlier backup as it was, for repeated calls and for
\* several records of one batch.
C15_BackupsDoNotCollide ==
    RealApply =>
        /\ \A b \in DOMAIN last[1].before.backups :
              b \in DOMAIN world.backups /\ world.backups[b] = last[1].before.backups[b]
        /\ Cardinality(DOMAIN world.backups)
              >= Cardinality(DOMAIN last[1].before.backups) + Cardinality(OverwrittenFiles)

\* the reports of the last call that satisfy P
ReportsWhere(P(_)) == {f \in 1..Len(last[1].reports) : P(last[1].reports[f])}

\* some hunk applied and none applied exactly
AppliedFuzzilyOnly(fr) ==
    /\ \E k \in 1..Len(fr.hunk_reports) : fr.hunk_reports[k].applied
    /\ \A k \in 1..Len(fr.hunk_reports) :
          ~(fr.hunk_reports[k].applied /\ fr.hunk_reports[k].exact_match)

\* at least one hunk applied exactly
AppliedExactly(fr) ==
    \E k \in 1..Len(fr.hunk_reports) : fr.hunk_reports[k].applied /\ fr.hunk_reports[k].exact_match

\* no hunk applied and not every hunk was already applied, the empty list
\* counting as "every hunk was already applied"
RejectedAsStated(fr) ==
    /\ \A k \in 1..Len(fr.hunk_reports) : ~fr.hunk_reports[k].applied
    /\ ~\A k \in 1..Len(fr.hunk_reports) : fr.hunk_reports[k].already_applied

\* no hunk applied, and the list is empty or some hunk was not already applied
RejectedOrEmpty(fr) ==
    /\ \A k \in 1..Len(fr.hunk_reports) : ~fr.hunk_reports[k].applied
    /\ \/ fr.hunk_reports = <<>>
       \/ \E k \in 1..Len(fr.hunk_reports) : ~fr.hunk_reports[k].already_applied

\* C16 as stated: the three counts are the numbers of files with a hunk
\* applied exactly, with hunks applied only fuzzily, and with no hunk applied
\* and not all hunks already applied; a report without hunk reports has all
\* of its hunks already applied and is counted nowhere.
C16_SummaryCountsAsStated ==
    last # None =>
        /\ last[1].counts["ok"] = Cardinality(ReportsWhere(AppliedExactly))
        /\ last[1].counts["fuzz"] = Cardinality(ReportsWhere(AppliedFuzzilyOnly))
        /\ last[1].counts["rej"] = Cardinality(ReportsWhere(RejectedAsStated))

\* C16: the three counts are the numbers of files with a hunk applied
\* exactly, with hunks applied only fuzzily, and with no hunk applied and
\* either no hunk report at all or some hunk not already applied; a file is
\* counted at most once, and a file with hunk reports that are all already
\* applied is counted nowhere.
C16_SummaryCounts ==
    last # None =>
        /\ last[1].counts["ok"] = Cardinality(ReportsWhere(AppliedExactly))
        /\ last[1].counts["fuzz"] = Cardinality(ReportsWhere(AppliedFuzzilyOnly))
        /\ last[1].counts["rej"] = Cardinality(ReportsWhere(RejectedOrEmpty))
        /\ last[1].counts["ok"] + last[1].counts["fuzz"] + last[1].counts["rej"]
              <= Len(last[1].reports)
        /\ \A f \in 1..Len(last[1].reports) :
              (last[1].reports[f].hunk_reports # <<>> /\ AlreadyAllOfAny(last[1].reports[f]))
                  => SummCounts(<<last[1].reports[f]>>) = [b \in {"ok", "fuzz", "rej"} |-> 0]

\* a report without hunk reports was counted as rejected
C16_EmptyReportRejected ==
    /\ last # None
    /\ Len(last[1].reports) = 1
    /\ last[1].reports[1].hunk_reports = <<>>
    /\ last[1].counts = [b \in {"ok", "fuzz", "rej"} |-> IF b = "rej" THEN 1 ELSE 0]

\* C17: in a real apply of one file, the FileReport says applied=true exactly
\* when the text after the hunks differs from the text before them, and then
\* the bytes of the target on disk differ from those before the call.
C17_AppliedIffContentDiffers ==
    (RealApply /\ Len(last[1].reports) = 1 /\ last[1].buffers[1] # <<>>) =>
        /\ last[1].reports[1].applied <=> Join(FinalBuffer(1)) # Join(FirstBuffer(1))
        /\ last[1].reports[1].applied => FileAt(world, TargetOf(1)) # FileAt(last[1].before, TargetOf(1))

\* the windows the fuzzy search scores in a buffer of n lines: at least one
\* line, within the slack of target_len lines
WindowsNear(n, target_len) ==
    {w \in (0..n) \X (0..n) :
        /\ w[2] - w[1] >= Max(1, target_len - Slack(target_len))
        /\ w[2] - w[1] <= target_len + Slack(target_len)}

\* the similarity ratios of the windows to the old chunk of the hunk c
Scores(c) ==
    LET i == last[1].call.opts.ignore_space
        n_lines == Norm(BufferBefore(c), i)
        n_old == Norm(OldChunk(HunkOf(c)), i)
    IN  {Ratio(Join(SubSeq(n_lines, w[1] + 1, w[2])), Join(n_old)) :
            w \in WindowsNear(Len(n_lines), Max(1, Len(n_old)))}

\* r is one of the scores S and none is greater
IsBestScore(r, S) == r \in S /\ \A s \in S : r.num * s.den >= s.num * r.den

\* neither the old nor the new chunk of the hunk c occurs in the buffer
NeitherFound(c) ==
    ~ChunkFound(c, OldChunk(HunkOf(c))) /\ ~ChunkFound(c, NewChunk(HunkOf(c)))

\* C18: when neither chunk is found verbatim the hunk is applied exactly when
\* the best window's ratio is at least ratio_cutoff; it is reported with
\* exact_match=false, already_applied=false and the best score as its ratio
\* (0 when no window was scored).  Every reported ratio lies in [0,1].
C18_FuzzyThreshold ==
    \A c \in ReportedHunks :
        /\ ReportOf(c).ratio.den > 0
        /\ 0 <= ReportOf(c).ratio.num
        /\ ReportOf(c).ratio.num <= ReportOf(c).ratio.den
        /\ NeitherFound(c) =>
              /\ ReportOf(c).applied <=>
                    \E s \in Scores(c) : 100 * s.num >= last[1].call.opts.ratio_cutoff * s.den
              /\ ~ReportOf(c).exact_match
              /\ ~ReportOf(c).already_applied
              /\ IF Scores(c) = {} THEN ReportOf(c).ratio = Zero
                 ELSE IsBestScore(ReportOf(c).ratio, Scores(c))

\* a hunk whose best window scores exactly the cutoff was applied fuzzily
C18_AppliedAtCutoff ==
    \E c \in ReportedHunks :
        /\ NeitherFound(c)
        /\ ReportOf(c).applied
        /\ 100 * ReportOf(c).ratio.num = last[1].call.opts.ratio_cutoff * ReportOf(c).ratio.den

\* the path p is root or lies under it
Under(p, root) == Len(p) >= Len(root) /\ SubSeq(p, 1, Len(root)) = root

\* Path(opts.repo_root).resolve() of the last call
RepoRoot == ResolvePath(last[1].env.cwd, last[1].call.opts.repo_root, <<>>)

\* C19: every target of a call, every file the call creates or changes and
\* every directory it creates lies under repo_root, also for patch paths
\* with ".." components and for absolute paths.
C19_PathConfinement ==
    last # None =>
        /\ ~last[1].raised => \A f \in 1..Len(last[1].file_patches) : Under(TargetOf(f), RepoRoot)
        /\ \A p \in DOMAIN world.files :
              FileAt(world, p) # FileAt(last[1].before, p) => Under(p, RepoRoot)
        /\ \A d \in world.dirs \ last[1].before.dirs : Under(d, RepoRoot)

\* the hunk c was applied at the span [i,j) of the buffer it met: the place
\* the old chunk was found at, or the window the fuzzy step reports
AppliedAt(c, i, j) ==
    IF ReportOf(c).exact_match
    THEN FindSubsequence(Norm(BufferBefore(c), last[1].call.opts.ignore_space),
                         Norm(OldChunk(HunkOf(c)), last[1].call.opts.ignore_space))
            = Some(<<i, j>>)
    ELSE ReportOf(c).notes = <<"fuzzy match at", i, j>>

\* outside the span [i,j) the buffer after the hunk c is the buffer before it
SameOutside(c, i, j) ==
    LET before == BufferBefore(c)
        after == BufferAfter(c)
    IN  /\ Len(after) = i + Len(NewChunk(HunkOf(c))) + (Len(before) - j)
        /\ SubSeq(after, 1, i) = SubSeq(before, 1, i)
        /\ SubSeq(after, Len(after) - (Len(before) - j) + 1, Len(after))
              = SubSeq(before, j + 1, Len(before))

\* C22: a hunk reported already-applied or rejected leaves the buffer as it
\* was; a hunk applied at the span [i,j) leaves the lines before i and the
\* lines from j on unchanged and in order.
C22_HunkFrame ==
    \A c \in ReportedHunks :
        /\ ~ReportOf(c).applied => BufferAfter(c) = BufferBefore(c)
        /\ ReportOf(c).applied =>
              \E i \in 0..Len(BufferBefore(c)) :
                  \E j \in i..Len(BufferBefore(c)) : AppliedAt(c, i, j) /\ SameOutside(c, i, j)

\* a hunk was applied at a span with lines before it and lines after it
C22_AppliedInTheMiddle ==
    \E c \in ReportedHunks :
        /\ ReportOf(c).applied
        /\ \E i \in 1..Len(BufferBefore(c)) :
              \E j \in i..(Len(BufferBefore(c)) - 1) : AppliedAt(c, i, j) /\ SameOutside(c, i, j)

\* the hunk report hr is a rejection
Rejected(hr) == ~hr.applied /\ ~hr.already_applied

\* the report of the hunk c is what _apply_single_hunk gives on the buffer
\* the hunks before it left
Attempted(c) ==
    ReportOf(c) = HunkReport(c[2] - 1,
                             ApplySingleHunk(BufferBefore(c), HunkOf(c),
                                             last[1].call.opts.ignore_space,
                                             last[1].call.opts.ratio_cutoff))

\* C23: when no exception left the call there is one FileReport per
\* FilePatch, and a FileReport without a read error holds one HunkReport per
\* hunk, with the indices 0..n-1 in hunk order, each the outcome of the hunk
\* on the buffer the earlier hunks left, whether or not they were rejected.
C23_OneReportPerHunk ==
    (last # None /\ ~last[1].raised) =>
        /\ Len(last[1].reports) = Len(last[1].file_patches)
        /\ \A f \in 1..Len(last[1].reports) :
              last[1].reports[f].notes # <<"Read error">> =>
                  /\ Len(last[1].reports[f].hunk_reports) = Len(last[1].file_patches[f].hunks)
                  /\ \A h \in 1..Len(last[1].reports[f].hunk_reports) :
                        /\ last[1].reports[f].hunk_reports[h].index = h - 1
                        /\ Attempted(<<f, h>>)

\* the first hunk of the first file was rejected, the second hunk applied,
\* and the hunk of the second file applied
C23_GoesOnAfterRejection ==
    /\ last # None
    /\ Len(last[1].reports) = 2
    /\ Len(last[1].reports[1].hunk_reports) = 2
    /\ Rejected(last[1].reports[1].hunk_reports[1])
    /\ last[1].reports[1].hunk_reports[2].applied
    /\ last[1].reports[2].hunk_reports[1].applied

\* the last call returned while the reads of existing targets failed
ReadFailed == last # None /\ ~last[1].raised /\ last[1].env.read_fails

\* the content of the backup file b in the world w, None when there is none
BackupAt(w, b) == IF b \in DOMAIN w.backups THEN Some(w.backups[b]) ELSE None

\* C24: when the target exists and cannot be read the FileReport has
\* applied=false, changed_lines=0, no hunk report and a note on the read
\* error; the target is left as it was and no backup of it is written.
C24_ReadError ==
    ReadFailed =>
        \A f \in 1..Len(last[1].reports) :
            TargetOf(f) \in DOMAIN last[1].before.files =>
                /\ ~last[1].reports[f].applied
                /\ last[1].reports[f].changed_lines = 0
                /\ last[1].reports[f].hunk_reports = <<>>
                /\ last[1].reports[f].notes = <<"Read error">>
                /\ FileAt(world, TargetOf(f)) = FileAt(last[1].before, TargetOf(f))
                /\ BackupAt(world, BackupFileOf(f)) = BackupAt(last[1].before, BackupFileOf(f))

\* a real apply of a patch with hunks met a target that could not be read
C24_UnreadableTarget ==
    /\ ReadFailed
    /\ ~last[1].call.opts.dry_run
    /\ Len(last[1].reports) = 1
    /\ TargetOf(1) \in DOMAIN last[1].before.files
    /\ last[1].file_patches[1].hunks # <<>>
    /\ last[1].reports[1].notes = <<"Read error">>

\* the target of file f of the last call did not exist before the call, and
\* the call returned
MissingTarget(f) ==
    /\ ~last[1].raised
    /\ FirstOnTarget(f)
    /\ TargetOf(f) \notin DOMAIN last[1].before.files
    /\ TargetOf(f) \notin last[1].before.dirs

\* the hunks of the last call that met the empty buffer of a missing target
OnEmptyBuffer == {c \in ReportedHunks : MissingTarget(c[1]) /\ BufferBefore(c) = <<>>}

\* the hunk has lines and all of them are added lines
OnlyAdded(hunk) == hunk.lines # <<>> /\ OldChunk(hunk) = <<>>

\* what C25 says of every missing target but the hunks with an old chunk: no
\* read error, an empty first buffer, added lines applied at position 0,
\* and no file when the buffer stays empty
MissingTargetIsEmpty ==
    last # None =>
        /\ \A f \in 1..Len(last[1].reports) :
              MissingTarget(f) =>
                  /\ last[1].reports[f].notes # <<"Read error">>
                  /\ FirstBuffer(f) = <<>>
                  /\ (FinalBuffer(f) = <<>> /\ Len(last[1].reports) = 1)
                        => TargetOf(f) \notin DOMAIN world.files
        /\ \A c \in OnEmptyBuffer :
              OnlyAdded(HunkOf(c)) =>
                  /\ ReportOf(c).applied /\ ReportOf(c).exact_match
                  /\ BufferAfter(c) = NewChunk(HunkOf(c))

\* C25 as stated: on a missing target every hunk with a non-empty old chunk
\* is rejected and leaves the buffer empty.
C25_MissingTargetAsStated ==
    /\ MissingTargetIsEmpty
    /\ \A c \in OnEmptyBuffer :
          OldChunk(HunkOf(c)) # <<>> => Rejected(ReportOf(c)) /\ BufferAfter(c) = <<>>

\* C25: on a missing target a hunk with a non-empty old chunk leaves the
\* buffer empty; it is rejected with ratio 0 when it has context or added
\* lines, and reported already-applied when it has removed lines only.
C25_MissingTarget ==
    /\ MissingTargetIsEmpty
    /\ \A c \in OnEmptyBuffer :
          OldChunk(HunkOf(c)) # <<>> =>
              /\ BufferAfter(c) = <<>>
              /\ ~ReportOf(c).applied
              /\ NewChunk(HunkOf(c)) # <<>> => Rejected(ReportOf(c)) /\ ReportOf(c).ratio = Zero
              /\ NewChunk(HunkOf(c)) = <<>> => ReportOf(c).already_applied

\* on a missing target a hunk of removed lines only was reported
\* already-applied and no file was created
C25_RemovalOnMissingTarget ==
    /\ last # None
    /\ ~last[1].call.opts.dry_run
    /\ Len(last[1].reports) = 1
    /\ <<1, 1>> \in OnEmptyBuffer
    /\ OldChunk(HunkOf(<<1, 1>>)) # <<>>
    /\ ReportOf(<<1, 1>>).already_applied
    /\ TargetOf(1) \notin DOMAIN world.files

\* the files the last call reports as applied
AppliedFiles == {f \in 1..Len(last[1].reports) : last[1].reports[f].applied}

\* C29: after a real apply in which the final write failed, the counts of
\* _summ_counts over the returned reports count no file as applied that the
\* reports do not say was applied, neither as clean nor as fuzzy.
C29_FailedWriteNotCounted ==
    WriteFailed =>
        last[1].counts["ok"] + last[1].counts["fuzz"] <= Cardinality(AppliedFiles)

(***************************************************************************)
(* Properties of the parsers                                               *)
(***************************************************************************)

\* the lines of the fragment of the parsed record
FragmentOf(rec) == SplitLines(rec.unified_diff, FALSE)

\* the hunk headers among the lines, in order
HeadersOf(lines) == SelectSeq(lines, LAMBDA l : HunkMatch(l) # None)

HasFileHeader(lines) ==
    \E k \in 1..Len(lines) : StartsWith(lines[k], MinusHeader) \/ StartsWith(lines[k], PlusHeader)

\* C9: a record with a non-empty path whose fragment has no "--- " / "+++ "
\* line parses into the FilePatch of that path, with one hunk per "@@" header
\* of the fragment, in the fragment's order.
C9_HeaderlessFragment ==
    ( /\ parsed # None
      /\ parsed[1].kind = "record"
      /\ parsed[1].record.path # <<>>
      /\ ~HasFileHeader(FragmentOf(parsed[1].record)) ) =>
        LET fp == parsed[1].result[1]
            headers == HeadersOf(FragmentOf(parsed[1].record))
        IN  /\ fp.path = parsed[1].record.path
            /\ Len(fp.hunks) = Len(headers)
            /\ \A k \in 1..Len(headers) :
                  fp.hunks[k].old_start = HunkMatch(headers[k])[1].old_start

\* the sections of the parsed diff whose "+++ " line names a file
KeptSections == SelectSeq(parsed[1].sections, LAMBDA sec : ~sec.deleted)

\* C10: a section whose "+++ " line names /dev/null yields no FilePatch, none
\* of its hunks goes to another FilePatch, and the diff parses into the same
\* FilePatch list as the diff without its deletion sections.
C10_DeletionSectionsIgnored ==
    (parsed # None /\ parsed[1].kind = "text") =>
        /\ parsed[1].result = ParseUnifiedDiffMultifile(DiffOf(KeptSections))
        /\ \A f \in 1..Len(parsed[1].result) :
              /\ parsed[1].result[f].path # DevNull
              /\ \A h \in 1..Len(parsed[1].result[f].hunks) :
                    \A k \in 1..Len(parsed[1].result[f].hunks[h].lines) :
                        parsed[1].result[f].hunks[h].lines[k] # DeletedLine

\* a diff in which a deletion section with hunks stands between two sections
\* with hunks, parsed into two FilePatch with their hunks
C10_Witness ==
    /\ parsed # None
    /\ parsed[1].kind = "text"
    /\ Len(parsed[1].sections) = 3
    /\ ~parsed[1].sections[1].deleted /\ parsed[1].sections[1].hunks # <<>>
    /\ parsed[1].sections[2].deleted /\ parsed[1].sections[2].hunks # <<>>
    /\ ~parsed[1].sections[3].deleted /\ parsed[1].sections[3].hunks # <<>>
    /\ Len(parsed[1].result) = 2
    /\ parsed[1].result[1].hunks # <<>>

\* the lines of the text the last parser call was given
GivenLines == SplitLines(parsed[1].record, FALSE)

\* the positions of the "--- " lines of ls
MinusLines(ls) == {i \in 1..Len(ls) : StartsWith(ls[i], MinusHeader)}

\* ls from its first "--- " line on, nothing when it has none
FromFirstHeader(ls) ==
    IF MinusLines(ls) = {} THEN <<>>
    ELSE SubSeq(ls, CHOOSE i \in MinusLines(ls) : \A j \in MinusLines(ls) : i <= j, Len(ls))

\* before line i of ls a "--- " line and then a "+++ " line that names a
\* file other than /dev/null were read
OpenedBefore(ls, i) ==
    \E k \in 1..(i - 1), j \in 1..(i - 1) :
        /\ k < j
        /\ StartsWith(ls[k], MinusHeader)
        /\ StartsWith(ls[j], PlusHeader)
        /\ Strip(Drop(ls[j], 4)) \notin {<<>>, DevNull}

\* the hunk headers of ls that follow an opened file section
HeadersInSections(ls) == {i \in 1..Len(ls) : HunkMatch(ls[i]) # None /\ OpenedBefore(ls, i)}

RECURSIVE HunkTotal(_)
\* the number of hunks of all the FilePatch records of fps
HunkTotal(fps) == IF fps = <<>> THEN 0 ELSE Len(Head(fps).hunks) + HunkTotal(Tail(fps))

\* fp is a FilePatch: a non-empty path and hunks of four numbers and body
\* lines that start with " ", "+" or "-"
IsFilePatch(fp) ==
    /\ DOMAIN fp = {"path", "hunks"}
    /\ fp.path # <<>>
    /\ \A h \in 1..Len(fp.hunks) :
          /\ DOMAIN fp.hunks[h] = {"old_start", "old_count", "new_start", "new_count", "lines"}
          /\ {fp.hunks[h].old_start, fp.hunks[h].old_count,
              fp.hunks[h].new_start, fp.hunks[h].new_count} \subseteq Nat
          /\ \A k \in 1..Len(fp.hunks[h].lines) :
                fp.hunks[h].lines[k] # <<>> /\ fp.hunks[h].lines[k][1] \in {" ", "+", "-"}

NonBlank(v) == v # None /\ Strip(v[1]) # <<>>

\* the last call was a call of _choose_model
Chose == parsed # None /\ parsed[1].kind = "model"

\* C21 as stated: the result is the CLI argument when it is non-blank, else
\* the value of BONES_MODEL when non-blank, else the value of OPENAI_MODEL
\* when non-blank, else "gpt-4o-mini".
C21_ModelPrecedenceVerbatim ==
    Chose =>
        parsed[1].result =
            IF NonBlank(parsed[1].cli_model) THEN parsed[1].cli_model[1]
            ELSE IF NonBlank(parsed[1].environ["BONES_MODEL"])
            THEN parsed[1].environ["BONES_MODEL"][1]
            ELSE IF NonBlank(parsed[1].environ["OPENAI_MODEL"])
            THEN parsed[1].environ["OPENAI_MODEL"][1]
            ELSE DefaultModel

\* C21: the result is the CLI argument without its surrounding whitespace
\* when it is non-blank, else the value of BONES_MODEL without surrounding
\* whitespace when non-blank, else that of OPENAI_MODEL, else "gpt-4o-mini".
C21_ModelPrecedence ==
    Chose =>
        parsed[1].result =
            IF NonBlank(parsed[1].cli_model) THEN Strip(parsed[1].cli_model[1])
            ELSE IF NonBlank(parsed[1].environ["BONES_MODEL"])
            THEN Strip(parsed[1].environ["BONES_MODEL"][1])
            ELSE IF NonBlank(parsed[1].environ["OPENAI_MODEL"])
            THEN Strip(parsed[1].environ["OPENAI_MODEL"][1])
            ELSE DefaultModel

\* with a blank CLI argument and both variables set, BONES_MODEL was chosen
C21_BonesOverOpenAI ==
    /\ Chose
    /\ parsed[1].cli_model = Some(<<" ">>)
    /\ parsed[1].environ["BONES_MODEL"] = Some(<<" ", "m", " ">>)
    /\ parsed[1].environ["OPENAI_MODEL"] = Some(<<"o">>)
    /\ parsed[1].result = <<"m">>

(***************************************************************************)
(* Properties of the hunk bodies                                           *)
(***************************************************************************)

\* the FilePatch a file section stands for: its name and one hunk per body,
\* each with the numbers of "@@ -1 +1 @@" and all the lines of the body
PatchOfSection(sec) ==
    FilePatch(sec.name,
              [k \in 1..Len(sec.hunks) |->
                  Hunk([old_start |-> 1, old_count |-> 1, new_start |-> 1, new_count |-> 1],
                       sec.hunks[k])])

\* C26: every tagged body line between a hunk header and the next header is
\* recorded in its hunk, in order, whatever its text, also a removed line
\* that reads "--- x"; no later hunk or file of the diff is lost.
C26_BodyLinesKept ==
    ( /\ parsed # None
      /\ parsed[1].kind = "text"
      /\ \A k \in 1..Len(parsed[1].sections) : ~parsed[1].sections[k].deleted ) =>
        parsed[1].result = [k \in 1..Len(parsed[1].sections) |-> PatchOfSection(parsed[1].sections[k])]

(***************************************************************************)
(* Properties of the ":w" command                                          *)
(***************************************************************************)

\* the calls of apply_patches the current ":w" command made with dry_run=false
RealApplies == {k \in 1..Len(repl.log) : ~repl.log[k].dry_run}

\* a ":w" command ran to its end with an answer of the user
Answered == repl.pc = "prompt" /\ repl.answer # None

\* the answer starts with "y" once stripped and lower-cased
SaidYes == StartsWith(Lower(Strip(repl.answer[1])), <<"y">>)

\* C27 as stated: a real apply is made only if the answer, as typed, starts
\* with "y".
C27_ApprovalVerbatim ==
    RealApplies # {} => StartsWith(repl.answer[1], <<"y">>)

\* C27: a dry_run=false call is made only after a dry_run=true call on the
\* same combined list in the same command and only if the answer, stripped
\* and lower-cased, starts with "y"; on any other answer no real call is made,
\* no file or backup is written and both staged lists are kept; after a
\* confirmed real apply both staged lists are empty.
C27_Approval ==
    /\ \A k \in RealApplies :
          /\ k > 1
          /\ repl.log[1].dry_run
          /\ repl.log[1].patches = repl.log[k].patches
          /\ repl.answer # None
          /\ SaidYes
    /\ Answered /\ ~SaidYes =>
          /\ RealApplies = {}
          /\ world.files = repl.before[1].files
          /\ world.backups = repl.before[1].backups
          /\ repl.staged_patches = repl.before[1].staged_patches
          /\ repl.staged_writes = repl.before[1].staged_writes
    /\ Answered /\ SaidYes =>
          /\ RealApplies # {}
          /\ repl.staged_patches = <<>>
          /\ repl.staged_writes = <<>>

\* the user typed "Y" and the staged write of a file reached the disk
C27_ApprovedInCapitals ==
    /\ Answered
    /\ repl.answer[1] = <<"Y">>
    /\ RealApplies # {}
    /\ repl.before[1].staged_writes # <<>>
    /\ world.files # repl.before[1].files
    /\ repl.staged_writes = <<>>

(***************************************************************************)
(* Properties of the fuzzy search                                          *)
(***************************************************************************)

\* the call of the fuzzy search in `parsed`
Searched == parsed # None /\ parsed[1].kind = "fuzzy"

\* L = max(1, len(old_chunk)) and slack = min(12, max(3, L div 3)) of the call
TargetLen == Max(1, Len(parsed[1].n_old_chunk))

SlackOfCall == Min(12, Max(3, TargetLen \div 3))

\* the spans [i,j) of the buffer whose length is within the slack of L
Spans ==
    {w \in (0..Len(parsed[1].n_lines)) \X (0..Len(parsed[1].n_lines)) :
        /\ w[1] < w[2]
        /\ Max(1, TargetLen - SlackOfCall) <= w[2] - w[1]
        /\ w[2] - w[1] <= TargetLen + SlackOfCall}

\* the ratio of the span w to the old chunk
ScoreOf(w) == Ratio(Window(parsed[1].n_lines, w), Join(parsed[1].n_old_chunk))

\* v comes before w in start-then-length order, or is w
NotAfter(v, w) == v[1] < w[1] \/ (v[1] = w[1] /\ v[2] <= w[2])

\* C28: every window scored is a span [i,j) with 0 <= i < j <= len(buffer)
\* and max(1, L-slack) <= j-i <= L+slack; below 2000 candidates every such
\* span is scored, in start-then-length order, and the window retained has
\* the greatest ratio among them, the first such window on ties.
C28_WindowBounds ==
    Searched =>
        /\ \A k \in 1..Len(parsed[1].windows) : parsed[1].windows[k] \in Spans
        /\ Len(parsed[1].windows) < 2000 =>
              /\ {parsed[1].windows[k] : k \in 1..Len(parsed[1].windows)} = Spans
              /\ \A k \in 1..(Len(parsed[1].windows) - 1) :
                    /\ NotAfter(parsed[1].windows[k], parsed[1].windows[k + 1])
                    /\ parsed[1].windows[k] # parsed[1].windows[k + 1]
              /\ (parsed[1].best.pos = None) <=> (Spans = {})
              /\ parsed[1].best.pos # None =>
                    /\ parsed[1].best.pos[1] \in Spans
                    /\ parsed[1].best.ratio = ScoreOf(parsed[1].best.pos[1])
                    /\ \A v \in Spans :
                          /\ ~RatioGt(ScoreOf(v), parsed[1].best.ratio)
                          /\ ScoreOf(v) = parsed[1].best.ratio => NotAfter(parsed[1].best.pos[1], v)

\* a search with the slack at its cap of 12: 39 old lines in a buffer of 30,
\* where the shortest window, 27 lines at the start, is retained
C28_SlackAtItsCap ==
    /\ Searched
    /\ Len(parsed[1].n_old_chunk) = 39
    /\ Len(parsed[1].n_lines) = 30
    /\ parsed[1].best.pos = Some(<<0, 27>>)

(***************************************************************************)
(* Properties of two concurrent invocations                                *)
(***************************************************************************)

\* both invocations have returned
BothDone == \A p \in Invocations : race.procs[p].pc = "done"

\* the place of the step of process p in the order of all steps
At(p, step) == CHOOSE k \in 1..Len(race.trace) : race.trace[k] = <<p, step>>

\* process p wrote the target
Wrote(p) == race.procs[p].wrote # None

\* the last step of process p
End(p) == IF Wrote(p) THEN At(p, "write") ELSE At(p, "read")

\* process p returned before process q began
OneAfterTheOther(p, q) == End(p) < At(q, "read")

\* the target holds the letter that the patch of process p adds
Holds(p) == IsSubstring(<<Mark(p)>>, ContentAt(world, TargetPath))

\* the files after apply_patches with the patch of p and then apply_patches
\* with the patch of q, from the files the two processes began with
InTurn(p, q) ==
    ApplyAll(ApplyAll(race.before, <<race.procs[p].fp>>, RaceOptions, NoFailure, 0).world,
             <<race.procs[q].fp>>, RaceOptions, NoFailure, 0).world.files

====
